---- MODULE Spec2Model ----
(***************************************************************************)
(* pytarchive: a daemon that archives directories to LTO tapes.            *)
(*                                                                         *)
(* The model covers the catalog (JsonDatabase), the persistent work queue  *)
(* (WorkList / WorkItem) with its single worker, the command handlers, the *)
(* prepare and archive tasks with the library operations they call, and    *)
(* the subprocess runner run_command.                                      *)
(*                                                                         *)
(* Scheduling: everything runs on one asyncio loop.  A handler is one      *)
(* synchronous call, hence one action.  The worker coroutine is cut at its *)
(* awaits: a value of pc in Suspended is an await at which other           *)
(* activities may run; every other value of pc is a position inside a      *)
(* synchronous stretch, where only the worker can take the next step.      *)
(***************************************************************************)
EXTENDS Integers, Sequences, FiniteSets, TLC

VARIABLES
    data,       \* JsonDatabase().data: the list of catalog records (dicts)
    dbFile,     \* contents of database.json
    resp,       \* last response written to a client / outcome of the last API call
    queue,      \* WorkList: the list of WorkItems
    queueFile,  \* contents of queue.json
    nextId,     \* source of fresh WorkItem identities (_hashseed)
    pc,         \* position of the worker coroutine
    cur,        \* identity of the item the worker is executing (0: none)
    loc,        \* local variables of the running task
    slots,      \* changer: slot -> volume tag ("" when Empty), slot 0 is the drive
    mounted,    \* /ltfs is listed in /proc/mounts
    formatted,  \* tapes that carry an LTFS filesystem
    onTape,     \* tape -> names of the top-level entries written on it
    apiCalls,   \* calls of the catalog API made from outside the daemon
    rc,         \* one run_command call observed in isolation
    sd,         \* position of main() in its shutdown ("run": serving)
    files,      \* /tmp: PID file, socket file (its binder) and holder of the flock
    main        \* daemon process -> position of its main() from start to exit

vars == <<data, dbFile, resp, queue, queueFile, nextId, pc, cur, loc,
          slots, mounted, formatted, onTape, apiCalls, rc, sd, files, main>>

catalogVars == <<data, dbFile>>
queueVars   == <<queue, queueFile, nextId>>
workerVars  == <<pc, cur, loc>>
libVars     == <<slots, mounted, formatted, onTape>>
procVars    == <<files, main>>

-----------------------------------------------------------------------------
(* Bounds of the model *)

MaxItems == 2        \* WorkItems created in one run
MaxLines == 1        \* lines a child writes to one stream
MaxApiCalls == 2     \* catalog API calls from outside while the daemon runs
NProcs == 2          \* daemon processes started on the host

Procs == 1..NProcs

\* neither PID_FILE nor SOCKET_FILE exists (sock, lock: 0 is nobody; fd: the
\* processes that hold the file PID_FILE names open)
NoFiles == [pid |-> FALSE, sock |-> 0, lock |-> 0, fd |-> {}]

Dirs     == {"/nas/d1", "/nas/d2"}
Sizes    == {1, 2}
Tapes    == {"AAK001L9", "AAK002L9"}

None      == "None"
Timestamp == "ts"    \* strftime("%b %d %Y %H:%M:%S") of the current time

\* ConfigReader().get_maxsize(): General.tape_max_size
tape_max_size == 3

-----------------------------------------------------------------------------
(* Catalog: JsonDatabase *)

\* dict.get(key)
get(r, f) == IF f \in DOMAIN r THEN r[f] ELSE None

HasFolder(db, d) == \E i \in 1..Len(db) : db[i].original_directory = d

\* index of the first record of directory d (the loop of _get_folder)
FolderIdx(db, d) ==
    CHOOSE i \in 1..Len(db) :
        /\ db[i].original_directory = d
        /\ \A j \in 1..(i-1) : db[j].original_directory # d

get_folder(db, d) == db[FolderIdx(db, d)]

new_entry(d) ==
    [original_directory |-> d, state |-> "preparing", description |-> "descr"]

\* variant without the lookup of the directory
create_entry_unguarded(db, d) == TRUE

create_entry_ok(db, d) == ~HasFolder(db, d)

\* variant without the state check
set_prepared_unguarded(e) == TRUE

set_prepared_ok(e) == e.state = "preparing"

set_prepared(e, size) ==
    ("size" :> size) @@ ("size_queried" :> Timestamp)
        @@ [e EXCEPT !.state = "prepared"]

\* set_prepared(rec, size, compressed) as the tasks call it
set_prepared_compressed(e, size, compressed) ==
    ("compressed" :> compressed) @@ set_prepared(e, size)

set_archiving_queued_ok(e) == e.state = "prepared"

set_archiving_queued(e, tape) ==
    ("tape" :> tape) @@ [e EXCEPT !.state = "archiving_queued"]

set_archiving_ok(e) == e.state = "archiving_queued"

set_archiving(e, path_on_tape) ==
    ("path_on_tape" :> path_on_tape) @@ [e EXCEPT !.state = "archiving"]

\* variant that also takes the state the archive handler leaves
set_archived_from_prepared(e) == e.state \in {"prepared", "archiving"}

set_archived_ok(e) == e.state = "archiving"

set_archived(e) ==
    ("archived" :> Timestamp) @@ [e EXCEPT !.state = "archived"]

\* set_archived(rec, size) as the archive task calls it
set_archived_size(e, size) == ("size" :> size) @@ set_archived(e)

get_directories_on_tape(db, tape) ==
    SelectSeq(db, LAMBDA e : get(e, "tape") = tape)

\* the record of directory d replaced by e
Store(db, d, e) == [db EXCEPT ![FolderIdx(db, d)] = e]

InvalidTransition == "ValueError: Invalid state transition"
AlreadyExists     == "ValueError: already exists in database"
NotFound          == "ValueError: not found"

-----------------------------------------------------------------------------
(* Calls of the catalog API by a client of JsonDatabase (the test-suite      *)
(* drives the setters this way); each writes the file before returning.     *)

ApiCreateEntry(d) ==
    /\ IF create_entry_ok(data, d)
         THEN /\ data' = Append(data, new_entry(d))
              /\ dbFile' = data'
              /\ resp' = "ok"
         ELSE /\ UNCHANGED catalogVars
              /\ resp' = AlreadyExists
    /\ UNCHANGED <<queueVars, workerVars, libVars, rc, sd, procVars>>

\* a setter called on the record of d: guard ok, result new
ApiSetter(d, ok, new) ==
    /\ HasFolder(data, d)
    /\ IF ok
         THEN /\ data' = Store(data, d, new)
              /\ dbFile' = data'
              /\ resp' = "ok"
         ELSE /\ UNCHANGED catalogVars
              /\ resp' = InvalidTransition
    /\ UNCHANGED <<queueVars, workerVars, libVars, rc, sd, procVars>>

ApiSetPrepared(d, size, compressed) ==
    /\ HasFolder(data, d)
    /\ ApiSetter(d, set_prepared_ok(get_folder(data, d)),
                 set_prepared_compressed(get_folder(data, d), size, compressed))

ApiSetArchivingQueued(d, tape) ==
    /\ HasFolder(data, d)
    /\ ApiSetter(d,
                 set_archiving_queued_ok(get_folder(data, d)),
                 set_archiving_queued(get_folder(data, d), tape))

ApiSetArchiving(d, path) ==
    /\ HasFolder(data, d)
    /\ ApiSetter(d, set_archiving_ok(get_folder(data, d)),
                 set_archiving(get_folder(data, d), path))

ApiSetArchived(d) ==
    /\ HasFolder(data, d)
    /\ ApiSetter(d, set_archived_ok(get_folder(data, d)),
                 set_archived(get_folder(data, d)))

ApiSetArchivedSize(d, size) ==
    /\ HasFolder(data, d)
    /\ ApiSetter(d, set_archived_ok(get_folder(data, d)),
                 set_archived_size(get_folder(data, d), size))

-----------------------------------------------------------------------------
(* Work queue: WorkItem and WorkList *)

\* datetime.datetime.now(): the second, and the microseconds within it
now == [sec |-> Timestamp, usec |-> 1]

\* datetime.strftime("%b %d %Y %H:%M:%S"): the microseconds are dropped
strftime(t) == t.sec

\* datetime.strptime(text, "%b %d %Y %H:%M:%S")
strptime(text) == [sec |-> text, usec |-> 0]

\* WorkItem(priority, coroutine, args, description) after __post_init__
WorkItem(id, priority, coroutine, args, description) ==
    [id |-> id, priority |-> priority, coroutine |-> coroutine, args |-> args,
     description |-> description, created |-> now, error_msg |-> "",
     running |-> FALSE, abort |-> FALSE]

is_error(i) == i.error_msg # ""

\* variant that never sees the flag
is_running_unseen(i) == FALSE

is_running(i) == i.running

Ids(q) == {q[k].id : k \in 1..Len(q)}

ItemIdx(q, id) == CHOOSE k \in 1..Len(q) : q[k].id = id

Item(q, id) == q[ItemIdx(q, id)]

\* the entry _write_json dumps for one item
Serialize(i) ==
    [priority |-> i.priority, coroutine |-> i.coroutine, args |-> i.args,
     description |-> i.description, created |-> strftime(i.created),
     error_msg |-> i.error_msg]

write_json(q) == [k \in 1..Len(q) |-> Serialize(q[k])]

\* WorkList.__init__, one entry of the file: a fresh WorkItem, then error_msg
\* and _created from the entry
Deserialize(e, id) ==
    [WorkItem(id, e.priority, e.coroutine, e.args, e.description)
        EXCEPT !.error_msg = e.error_msg, !.created = strptime(e.created)]

\* WorkList.__init__: the items of the file in file order; base is the first
\* of the fresh identities
read_json(file, base) ==
    [k \in 1..Len(file) |-> Deserialize(file[k], base + k - 1)]

append(q, i) == Append(q, i)

\* list.remove: drops the first element equal to the item
remove(q, id) ==
    LET k == ItemIdx(q, id)
    IN  [j \in 1..(Len(q) - 1) |-> IF j < k THEN q[j] ELSE q[j + 1]]

\* WorkItem.request_abort: sets the asyncio.Event
request_abort(q, id) == [q EXCEPT ![ItemIdx(q, id)].abort = TRUE]

\* variant of an unstable sort: x goes before the elements of its priority
RECURSIVE InsertBeforeEqual(_, _)
InsertBeforeEqual(s, x) ==
    IF s = << >> THEN <<x>>
    ELSE IF x.priority <= Head(s).priority THEN <<x>> \o s
    ELSE <<Head(s)>> \o InsertBeforeEqual(Tail(s), x)

\* sorted(..., key=priority) is stable: x goes behind every element whose
\* priority is not larger
RECURSIVE InsertByPriority(_, _)
InsertByPriority(s, x) ==
    IF s = << >> THEN <<x>>
    ELSE IF x.priority < Head(s).priority THEN <<x>> \o s
    ELSE <<Head(s)>> \o InsertByPriority(Tail(s), x)

RECURSIVE sorted(_)
sorted(s) ==
    IF s = << >> THEN << >>
    ELSE InsertByPriority(sorted(SubSeq(s, 1, Len(s) - 1)), s[Len(s)])

\* variant without the filter on error_msg
get_top_unfiltered(q) ==
    LET list == sorted(q)
    IN  IF Len(list) = 0 THEN 0 ELSE list[1].id

\* variant that also passes over the items flagged running
get_top_idle(q) ==
    LET list == sorted(SelectSeq(q, LAMBDA i : i.error_msg = "" /\ ~i.running))
    IN  IF Len(list) = 0 THEN 0 ELSE list[1].id

\* WorkList.get_top: the identity of the item returned, 0 for None
get_top(q) ==
    LET list == sorted(SelectSeq(q, LAMBDA i : i.error_msg = ""))
    IN  IF Len(list) = 0 THEN 0 ELSE list[1].id

-----------------------------------------------------------------------------
(* Worker: WorkList.worker and WorkItem.run *)

\* awaits of the worker coroutine, where handlers may run
Suspended ==
    {"sleep", "p_du1", "p_du2", "p_tar", "p_du3",
     "umount1", "settle1", "umount2", "settle2", "unload", "load", "mkltfs",
     "ltfs", "df", "rsync", "rm", "find", "copy", "cfe1", "cfe2", "du_tape",
     "sleep200"}

LocInit == [size |-> 0, compress |-> FALSE, ctx |-> ""]

CurItem == Item(queue, cur)

AbortSet == CurItem.abort

\* run_command after process.wait(): "raise" or "return"
run_command_outcome(has_abort_event, is_set, exit_code) ==
    IF has_abort_event /\ is_set THEN "raise" ELSE "return"

\* the worker moves on inside the task
Goto(p) == pc' = p /\ UNCHANGED <<queue, queueFile, cur, loc>>

\* worker(): item = get_top(); None: sleep(1); else item.run() sets _running
WorkerPick ==
    /\ pc = "loop"
    /\ LET id == get_top(queue)
       IN  IF id = 0
             THEN /\ pc' = "sleep"
                  /\ UNCHANGED <<queue, cur>>
             ELSE /\ queue' = [queue EXCEPT ![ItemIdx(queue, id)].running = TRUE]
                  /\ cur' = id
                  /\ pc' = "start"
    /\ UNCHANGED <<catalogVars, resp, queueFile, nextId, loc, libVars, apiCalls, rc, sd, procVars>>

\* asyncio.sleep(1) is over
WorkerWake ==
    /\ pc = "sleep"
    /\ pc' = "loop"
    /\ UNCHANGED <<catalogVars, resp, queueVars, cur, loc, libVars, apiCalls, rc, sd, procVars>>

\* the task returned: run() clears _running, worker() removes the item
\* (list.remove raises ValueError for an item that is not in the list, which
\* nothing in worker() catches)
TaskReturn ==
    /\ IF cur \in Ids(queue)
         THEN /\ queue' = remove(queue, cur)
              /\ queueFile' = write_json(queue')
              /\ pc' = "loop"
         ELSE /\ UNCHANGED <<queue, queueFile>>
              /\ pc' = "dead"
    /\ cur' = 0
    /\ loc' = LocInit

\* the task raised: run() is left before _running is cleared, worker() stores
\* the message, calls the persist callback and continues
TaskRaise(msg) ==
    /\ queue' = IF cur \in Ids(queue)
                  THEN [queue EXCEPT ![ItemIdx(queue, cur)].error_msg = msg]
                  ELSE queue
    /\ queueFile' = write_json(queue')
    /\ pc' = "loop"
    /\ cur' = 0
    /\ loc' = LocInit

-----------------------------------------------------------------------------
(* Task prepare(folder, compress, progress, abort) *)

Folder == CurItem.args[1]

\* what a du child leaves on stdout: a number, or (0) nothing to parse
DuOutcomes == Sizes \cup {0}

\* JsonDatabase().data.remove(entry)
data_remove(db, d) == SelectSeq(db, LAMBDA e : e.original_directory # d)

\* prepare up to its first await: _get_folder, then run_command("du", "-s")
PrepareStart ==
    /\ pc = "start"
    /\ CurItem.coroutine = "prepare"
    /\ IF HasFolder(data, Folder)
         THEN /\ pc' = "p_du1"
              /\ loc' = [loc EXCEPT !.compress = CurItem.args[2]]
              /\ UNCHANGED <<queue, queueFile, cur>>
         ELSE TaskRaise(NotFound)
    /\ UNCHANGED <<catalogVars, resp, nextId, libVars, apiCalls, rc, sd, procVars>>

\* _get_size: the du child is over; out = 0: int(stdout.split()[0]) raises
PrepareSize(out) ==
    /\ pc = "p_du1"
    /\ IF run_command_outcome(TRUE, AbortSet, 0) = "raise"
         THEN /\ TaskRaise("CalledProcessError")
              /\ UNCHANGED data
         ELSE IF AbortSet
         THEN /\ data' = data_remove(data, Folder)
              /\ TaskReturn
         ELSE IF out = 0
         THEN /\ TaskRaise("IndexError")
              /\ UNCHANGED data
         ELSE /\ loc' = [loc EXCEPT !.size = out]
              /\ pc' = "p_du2"
              /\ UNCHANGED <<data, queue, queueFile, cur>>
    /\ UNCHANGED <<dbFile, resp, nextId, libVars, apiCalls, rc, sd, procVars>>

\* set_prepared(entry, size, compress) at the end of prepare
PrepareFinish(size, compress) ==
    IF set_prepared_ok(get_folder(data, Folder))
      THEN /\ data' = Store(data, Folder,
                  set_prepared_compressed(get_folder(data, Folder), size, compress))
           /\ dbFile' = data'
           /\ TaskReturn
      ELSE /\ TaskRaise(InvalidTransition)
           /\ UNCHANGED catalogVars

\* du -s --inodes is over: many = inodes > 5e5
PrepareInodes(ok, many) ==
    /\ pc = "p_du2"
    /\ IF run_command_outcome(TRUE, AbortSet, 0) = "raise"
         THEN /\ TaskRaise("CalledProcessError")
              /\ UNCHANGED catalogVars
         ELSE IF ~ok /\ ~AbortSet
         THEN /\ TaskRaise("IndexError")
              /\ UNCHANGED catalogVars
         ELSE IF AbortSet
         THEN /\ data' = data_remove(data, Folder)
              /\ TaskReturn
              /\ UNCHANGED dbFile
         ELSE IF many \/ loc.compress
         THEN /\ loc' = [loc EXCEPT !.compress = TRUE]
              /\ pc' = "p_tar"
              /\ UNCHANGED <<catalogVars, queue, queueFile, cur>>
         ELSE PrepareFinish(loc.size, FALSE)
    /\ UNCHANGED <<resp, nextId, libVars, apiCalls, rc, sd, procVars>>

\* tar czf is over
PrepareTar ==
    /\ pc = "p_tar"
    /\ IF run_command_outcome(TRUE, AbortSet, 0) = "raise"
         THEN TaskRaise("CalledProcessError")
         ELSE Goto("p_du3")
    /\ UNCHANGED <<catalogVars, resp, nextId, libVars, apiCalls, rc, sd, procVars>>

\* du -s of the .tar.gz is over, then set_prepared
PrepareTarSize(out) ==
    /\ pc = "p_du3"
    /\ IF run_command_outcome(TRUE, AbortSet, 0) = "raise"
         THEN /\ TaskRaise("CalledProcessError")
              /\ UNCHANGED catalogVars
         ELSE IF AbortSet
         THEN /\ data' = data_remove(data, Folder)
              /\ TaskReturn
              /\ UNCHANGED dbFile
         ELSE IF out = 0
         THEN /\ TaskRaise("IndexError")
              /\ UNCHANGED catalogVars
         ELSE PrepareFinish(out, TRUE)
    /\ UNCHANGED <<resp, nextId, libVars, apiCalls, rc, sd, procVars>>

-----------------------------------------------------------------------------
(* Library: the changer, the drive and /ltfs *)

NSlots == 3          \* storage slots of the changer

TapeSeq == <<"AAK001L9", "AAK002L9">>

CleaningTags == {"CLN001L9"}

\* variant that takes no tag for a cleaning cartridge
startswith_CLN_never(tag) == FALSE

\* volume_tag.startswith("CLN")
startswith_CLN(tag) == tag \in CleaningTags

drive_empty(sl) == sl[0] = ""

\* tags written without the generation suffix
ShortTags == {"AAK001"}

\* str.endswith
endswith(s, suffix) ==
    /\ Len(s) >= Len(suffix)
    /\ SubSeq(s, Len(s) - Len(suffix) + 1, Len(s)) = suffix

\* find_tape of pyarchive/service/library.py: a tag that ends neither in L9
\* nor in L1 is looked up with L9 appended
pyarchive_find_tape(sl, volume_tag) ==
    LET full == IF endswith(volume_tag, "L9") \/ endswith(volume_tag, "L1")
                  THEN volume_tag ELSE volume_tag \o "L9"
    IN  IF \E n \in DOMAIN sl : sl[n] = full
          THEN CHOOSE n \in DOMAIN sl :
                  /\ sl[n] = full
                  /\ \A m \in DOMAIN sl : sl[m] = full => n <= m
          ELSE -1

\* find_tape: the first slot whose volume tag equals the tag, 0..NSlots, or
\* -1 for None
find_tape(sl, tag) ==
    IF \E n \in DOMAIN sl : sl[n] = tag /\ tag # ""
      THEN CHOOSE n \in DOMAIN sl :
              /\ sl[n] = tag
              /\ \A m \in DOMAIN sl : sl[m] = tag => n <= m
      ELSE -1

\* get_empty_slots()[0], or -1 when the list is empty (IndexError)
first_empty_slot(sl) ==
    IF \E n \in DOMAIN sl : sl[n] = ""
      THEN CHOOSE n \in DOMAIN sl :
              /\ sl[n] = ""
              /\ \A m \in DOMAIN sl : sl[m] = "" => n <= m
      ELSE -1

\* mtx load <slot>: moves the tape of a full slot into the empty drive
mtx_load(sl, n) ==
    IF n \in DOMAIN sl /\ n # 0 /\ sl[n] # "" /\ sl[0] = ""
      THEN [sl EXCEPT ![0] = sl[n], ![n] = ""]
      ELSE sl

\* mtx unload <slot>: moves the tape of the drive into an empty slot
mtx_unload(sl, n) ==
    IF n \in DOMAIN sl /\ n # 0 /\ sl[n] = "" /\ sl[0] # ""
      THEN [sl EXCEPT ![n] = sl[0], ![0] = ""]
      ELSE sl

\* check_tape_consistency: raises when an archived path_on_tape holds "/"
\* (no modelled name does) or when /ltfs is not mounted; a mismatch is logged
check_tape_consistency_ok == mounted

\* variant that expects a filesystem on no tape
should_have_fs_never(db, tape) == FALSE

\* ensure_tape_mounted: archived records on the tape => a filesystem is expected
should_have_fs(db, tape) ==
    \E i \in 1..Len(db) : get(db[i], "tape") = tape /\ db[i].state = "archived"

Tape == CurItem.args[2]

\* variant that never takes the tape for mounted
already_mounted_never(sl, tape, is_mounted) == FALSE

\* variant that does not compare the volume tag of the drive
already_mounted_any_tape(sl, tape, is_mounted) == ~drive_empty(sl) /\ is_mounted

\* ensure_tape_mounted: "The correct tape is mounted in the correct location"
already_mounted(sl, tape, is_mounted) ==
    ~drive_empty(sl) /\ sl[0] = tape /\ is_mounted

\* ensure_tape_mounted up to ensure_tape_loaded
EtmEnter ==
    /\ pc = "etm"
    /\ IF already_mounted(slots, Tape, mounted)
         THEN \* "Tape already mounted"
              IF check_tape_consistency_ok THEN Goto("a_chk1")
              ELSE TaskRaise("AssertionError")
         ELSE IF startswith_CLN(Tape)
         THEN TaskRaise("ValueError: Can't load cleaning tape!")
         ELSE IF ~drive_empty(slots)
         THEN IF slots[0] = Tape THEN Goto("etm_loaded")   \* already loaded
              ELSE \* ensure_tape_unloaded, drive not empty
                   /\ pc' = "eum1"
                   /\ loc' = [loc EXCEPT !.ctx = "etu"]
                   /\ UNCHANGED <<queue, queueFile, cur>>
         ELSE Goto("etl_chk")
    /\ UNCHANGED <<catalogVars, resp, nextId, libVars, apiCalls, rc, sd, procVars>>

\* ensure_tape_unmounted, first pass of "for path in [/ltfs, /ltfs]"
Eum1 ==
    /\ pc = "eum1"
    /\ IF mounted THEN Goto("umount1") ELSE Goto("eum2")
    /\ UNCHANGED <<catalogVars, resp, nextId, libVars, apiCalls, rc, sd, procVars>>

\* umount /ltfs is over (ok: it succeeded), then sleep(5)
Umount1(ok) ==
    /\ pc = "umount1"
    /\ mounted' = IF ok THEN FALSE ELSE mounted
    /\ Goto("settle1")
    /\ UNCHANGED <<catalogVars, resp, nextId, slots, formatted, onTape, apiCalls, rc, sd, procVars>>

Settle1 ==
    /\ pc = "settle1"
    /\ Goto("eum2")
    /\ UNCHANGED <<catalogVars, resp, nextId, libVars, apiCalls, rc, sd, procVars>>

\* where ensure_tape_unmounted returns to
EumReturn == IF loc.ctx = "etu" THEN "etu_chk" ELSE "fin"

\* second pass
Eum2 ==
    /\ pc = "eum2"
    /\ IF mounted THEN Goto("umount2") ELSE Goto(EumReturn)
    /\ UNCHANGED <<catalogVars, resp, nextId, libVars, apiCalls, rc, sd, procVars>>

Umount2(ok) ==
    /\ pc = "umount2"
    /\ mounted' = IF ok THEN FALSE ELSE mounted
    /\ Goto("settle2")
    /\ UNCHANGED <<catalogVars, resp, nextId, slots, formatted, onTape, apiCalls, rc, sd, procVars>>

Settle2 ==
    /\ pc = "settle2"
    /\ Goto(EumReturn)
    /\ UNCHANGED <<catalogVars, resp, nextId, libVars, apiCalls, rc, sd, procVars>>

\* ensure_tape_unloaded after ensure_tape_unmounted: cancel check, _unload
EtuChk ==
    /\ pc = "etu_chk"
    /\ IF AbortSet THEN Goto("etl_chk")
       ELSE IF first_empty_slot(slots) = -1 THEN TaskRaise("IndexError")
       ELSE Goto("unload")
    /\ UNCHANGED <<catalogVars, resp, nextId, libVars, apiCalls, rc, sd, procVars>>

\* mtx unload is over; the target was get_empty_slots()[0].  The drive does
\* not release a tape that LTFS holds mounted.
Unload(ok) ==
    /\ pc = "unload"
    /\ slots' = IF ok /\ ~mounted
                  THEN mtx_unload(slots, first_empty_slot(slots)) ELSE slots
    /\ Goto("etl_chk")
    /\ UNCHANGED <<catalogVars, resp, nextId, mounted, formatted, onTape, apiCalls, rc, sd, procVars>>

\* ensure_tape_loaded after ensure_tape_unloaded: cancel check, assert
\* drive_empty, _load_tape
EtlChk ==
    /\ pc = "etl_chk"
    /\ IF AbortSet THEN Goto("etm_loaded")
       ELSE IF ~drive_empty(slots) THEN TaskRaise("AssertionError")
       ELSE Goto("load")
    /\ UNCHANGED <<catalogVars, resp, nextId, libVars, apiCalls, rc, sd, procVars>>

\* mtx load <find_tape(tag)> is over
Load(ok) ==
    /\ pc = "load"
    /\ slots' = IF ok THEN mtx_load(slots, find_tape(slots, Tape)) ELSE slots
    /\ Goto("etm_loaded")
    /\ UNCHANGED <<catalogVars, resp, nextId, mounted, formatted, onTape, apiCalls, rc, sd, procVars>>

\* ensure_tape_mounted after ensure_tape_loaded: cancel check, then
\* _create_filesystem unless a filesystem is expected
EtmLoaded ==
    /\ pc = "etm_loaded"
    /\ IF AbortSet THEN Goto("a_chk1")
       ELSE IF should_have_fs(data, Tape) THEN Goto("etm_fs")
       ELSE IF drive_empty(slots) THEN TaskRaise("ValueError: No tape loaded")
       ELSE Goto("mkltfs")
    /\ UNCHANGED <<catalogVars, resp, nextId, libVars, apiCalls, rc, sd, procVars>>

\* mkltfs is over: it formats a blank tape and fails on a formatted one
\* (run_command is called without abort event)
Mkltfs(ok) ==
    /\ pc = "mkltfs"
    /\ formatted' = IF ok /\ slots[0] # "" THEN formatted \cup {slots[0]}
                    ELSE formatted
    /\ IF run_command_outcome(FALSE, AbortSet, IF ok THEN 0 ELSE 1) = "raise"
         THEN TaskRaise("CalledProcessError")
         ELSE Goto("etm_fs")
    /\ UNCHANGED <<catalogVars, resp, nextId, slots, mounted, onTape, apiCalls, rc, sd, procVars>>

\* ensure_tape_mounted after the filesystem step: cancel check, _mount_tape
EtmFs ==
    /\ pc = "etm_fs"
    /\ IF AbortSet THEN Goto("a_chk1")
       ELSE IF drive_empty(slots) THEN TaskRaise("ValueError: No tape loaded")
       ELSE Goto("ltfs")
    /\ UNCHANGED <<catalogVars, resp, nextId, libVars, apiCalls, rc, sd, procVars>>

\* ltfs -o devname=... /ltfs is over (it mounts a formatted tape), then
\* check_tape_consistency
Ltfs(ok) ==
    /\ pc = "ltfs"
    /\ mounted' = (mounted \/ (ok /\ slots[0] \in formatted))
    /\ IF mounted' THEN Goto("a_chk1") ELSE TaskRaise("AssertionError")
    /\ UNCHANGED <<catalogVars, resp, nextId, slots, formatted, onTape, apiCalls, rc, sd, procVars>>

-----------------------------------------------------------------------------
(* Task archive(folder, tape_label, target_filename, progress, abort) *)

Target == CurItem.args[3]

Entry == get_folder(data, Folder)

\* archive up to ensure_tape_mounted
ArchiveStart ==
    /\ pc = "start"
    /\ CurItem.coroutine = "archive"
    /\ IF HasFolder(data, Folder) THEN Goto("etm") ELSE TaskRaise(NotFound)
    /\ UNCHANGED <<catalogVars, resp, nextId, libVars, apiCalls, rc, sd, procVars>>

\* after ensure_tape_mounted: abort check, then run_command("df")
ArchiveChk1 ==
    /\ pc = "a_chk1"
    /\ IF AbortSet THEN TaskReturn ELSE Goto("df")
    /\ UNCHANGED <<catalogVars, resp, nextId, libVars, apiCalls, rc, sd, procVars>>

\* df is over: row = a line for /ltfs was printed, enough = its Available
\* column is not below entry["size"]
ArchiveDf(row, enough) ==
    /\ pc = "df"
    /\ IF row /\ ~enough
         THEN /\ TaskRaise("ValueError: Not enough space on tape")
              /\ UNCHANGED onTape
         ELSE IF ~row
         THEN /\ TaskRaise("AssertionError")
              /\ UNCHANGED onTape
         ELSE IF Entry.compressed
         THEN /\ IF (Target \o ".tar.gz") \in onTape[slots[0]]
                   THEN TaskRaise("Exception: file already exists")
                   ELSE Goto("rsync")
              /\ UNCHANGED onTape
         ELSE \* os.mkdir("/ltfs/" + target_filename), then find
              IF Target \in onTape[slots[0]]
              THEN /\ TaskRaise("FileExistsError")
                   /\ UNCHANGED onTape
              ELSE /\ onTape' = [onTape EXCEPT ![slots[0]] = @ \cup {Target}]
                   /\ Goto("find")
    /\ UNCHANGED <<catalogVars, resp, nextId, slots, mounted, formatted, apiCalls, rc, sd, procVars>>

\* rsync of the .tar.gz is over (no abort event), then rm of the temp archive
ArchiveRsync(ok) ==
    /\ pc = "rsync"
    /\ onTape' = IF ok THEN [onTape EXCEPT ![slots[0]] = @ \cup {Target \o ".tar.gz"}]
                 ELSE onTape
    /\ Goto("rm")
    /\ UNCHANGED <<catalogVars, resp, nextId, slots, mounted, formatted, apiCalls, rc, sd, procVars>>

\* rm is over; "du -s path" then reads a name only the other branch binds
ArchiveRm ==
    /\ pc = "rm"
    /\ TaskRaise("UnboundLocalError")
    /\ UNCHANGED <<catalogVars, resp, nextId, libVars, apiCalls, rc, sd, procVars>>

\* find is over (abort event passed); then the abort check, then ordered_copy
ArchiveFind ==
    /\ pc = "find"
    /\ IF run_command_outcome(TRUE, AbortSet, 0) = "raise"
         THEN /\ TaskRaise("CalledProcessError")
              /\ UNCHANGED onTape
         ELSE IF AbortSet
         THEN /\ onTape' = [onTape EXCEPT ![slots[0]] = @ \ {Target}]  \* os.rmdir
              /\ TaskReturn
         ELSE /\ Goto("copy")
              /\ UNCHANGED onTape
    /\ UNCHANGED <<catalogVars, resp, nextId, slots, mounted, formatted, apiCalls, rc, sd, procVars>>

\* ordered_copy is over (abort event passed); then the last abort check
\* (rmdir of the now non-empty directory raises), then check_folders_equal
ArchiveCopy ==
    /\ pc = "copy"
    /\ IF run_command_outcome(TRUE, AbortSet, 0) = "raise"
         THEN TaskRaise("CalledProcessError")
         ELSE IF AbortSet THEN TaskRaise("OSError")
         ELSE Goto("cfe1")
    /\ UNCHANGED <<catalogVars, resp, nextId, libVars, apiCalls, rc, sd, procVars>>

\* check_folders_equal: the listing of the source is over
ArchiveCfe1 ==
    /\ pc = "cfe1"
    /\ Goto("cfe2")
    /\ UNCHANGED <<catalogVars, resp, nextId, libVars, apiCalls, rc, sd, procVars>>

\* the listing of the target is over: equal = the sorted listings agree
ArchiveCfe2(equal) ==
    /\ pc = "cfe2"
    /\ IF equal THEN Goto("du_tape")
       ELSE TaskRaise("ValueError: After-copy consistency check failed")
    /\ UNCHANGED <<catalogVars, resp, nextId, libVars, apiCalls, rc, sd, procVars>>

\* du -s of the copy is over, then set_archived(entry, size) and
\* entry["tape"] = tape_label; then the unmount loop
ArchiveDuTape(out) ==
    /\ pc = "du_tape"
    /\ IF out = 0
         THEN /\ TaskRaise("IndexError")
              /\ UNCHANGED catalogVars
         ELSE IF ~set_archived_ok(Entry)
         THEN /\ TaskRaise(InvalidTransition)
              /\ UNCHANGED catalogVars
         ELSE /\ data' = Store(data, Folder,
                    ("tape" :> Tape) @@ set_archived_size(Entry, out))
              /\ dbFile' = Store(data, Folder, set_archived_size(Entry, out))
              /\ pc' = "eum1"
              /\ loc' = [loc EXCEPT !.ctx = "fin"]
              /\ UNCHANGED <<queue, queueFile, cur>>
    /\ UNCHANGED <<resp, nextId, libVars, apiCalls, rc, sd, procVars>>

\* ensure_tape_unmounted returned without exception: break, then sleep(200)
ArchiveFin ==
    /\ pc = "fin"
    /\ Goto("sleep200")
    /\ UNCHANGED <<catalogVars, resp, nextId, libVars, apiCalls, rc, sd, procVars>>

\* sleep(200) is over: the task returns its message
ArchiveDone ==
    /\ pc = "sleep200"
    /\ TaskReturn
    /\ UNCHANGED <<catalogVars, resp, nextId, libVars, apiCalls, rc, sd, procVars>>

-----------------------------------------------------------------------------
(* Command handlers *)

Yield == pc \in Suspended

\* handle_abort, one task id
handle_abort(id) ==
    /\ Yield
    /\ IF id \notin Ids(queue)
         THEN UNCHANGED <<queue, queueFile>>        \* "Task not found"
         ELSE IF is_error(Item(queue, id))
         THEN /\ queue' = remove(queue, id)         \* "Failed task removed"
              /\ queueFile' = write_json(queue')
         ELSE IF is_running(Item(queue, id))
         THEN /\ queue' = request_abort(queue, id)  \* "abort scheduled"
              /\ UNCHANGED queueFile
         ELSE /\ queue' = remove(queue, id)         \* "removed from queue"
              /\ queueFile' = write_json(queue')
    /\ UNCHANGED <<catalogVars, resp, nextId, workerVars, libVars, apiCalls, rc, sd, procVars>>

\* handle_requeue, one task id: error_msg is reset on the item, no persist
handle_requeue(id) ==
    /\ Yield
    /\ IF id \notin Ids(queue)
         THEN UNCHANGED queue                       \* "Task not found"
         ELSE IF is_error(Item(queue, id))
         THEN queue' = [queue EXCEPT ![ItemIdx(queue, id)].error_msg = ""]
         ELSE UNCHANGED queue                       \* "was already queued"
    /\ UNCHANGED <<catalogVars, resp, queueFile, nextId, workerVars, libVars, apiCalls, rc, sd, procVars>>

\* what handle_prepare writes to the client: os.stat, then create_entry
prepare_response(folder, stat_ok) ==
    IF ~stat_ok THEN "Error: FileNotFoundError"
    ELSE IF ~create_entry_ok(data, folder) THEN "Error: " \o AlreadyExists
    ELSE "Preparation queued"

\* handle_prepare: stat_ok is the outcome of os.stat(args.folder)
handle_prepare(folder, compress, priority, stat_ok) ==
    /\ Yield
    /\ nextId <= MaxItems
    /\ IF prepare_response(folder, stat_ok) # "Preparation queued"
         THEN UNCHANGED <<catalogVars, queueVars>>  \* "Error: ..."
         ELSE /\ data' = Append(data, new_entry(folder))
              /\ dbFile' = data'
              /\ queue' = append(queue,
                    WorkItem(nextId, priority, "prepare", <<folder, compress>>,
                             <<"Preparing folder", folder>>))
              /\ queueFile' = write_json(queue')
              /\ nextId' = nextId + 1
    /\ UNCHANGED <<resp, workerVars, libVars, apiCalls, rc, sd, procVars>>

RECURSIVE SumSize(_)
SumSize(s) == IF s = << >> THEN 0 ELSE Head(s).size + SumSize(Tail(s))

\* JsonDatabase().suggest_ontape_name(entry): the last component of the path
suggest_ontape_name(e) ==
    CASE e.original_directory = "/nas/d1" -> "d1"
      [] e.original_directory = "/nas/d2" -> "d2"
      [] OTHER -> "dir"

\* variant that accepts every size
not_enough_space_never(maxsize, on_tape, size) == FALSE

\* "if maxsize < on_tape + size"
not_enough_space(maxsize, on_tape, size) == maxsize < on_tape + size

target_filename(e, targetname) ==
    IF targetname # "" THEN targetname ELSE suggest_ontape_name(e)

\* the validations of handle_archive: the message of the first that fails,
\* "ok" when all pass
archive_validation(folder, tapelabel, targetname, stat_ok) ==
    IF ~HasFolder(data, folder) THEN "Folder not prepared yet"
    ELSE LET entry == get_folder(data, folder)
         IN  IF entry.state # "prepared" THEN "Folder is in the wrong state"
             ELSE IF not_enough_space(tape_max_size,
                        SumSize(get_directories_on_tape(data, tapelabel)),
                        entry.size)
             THEN "not enough space on that tape"
             ELSE IF find_tape(slots, tapelabel) = -1
             THEN "Requested tape not found"
             ELSE IF \/ target_filename(entry, targetname) = ""
                     \/ \E i \in 1..Len(data) :
                           /\ get(data[i], "tape") = tapelabel
                           /\ data[i].state = "archived"
                           /\ get(data[i], "path_on_tape")
                                 = target_filename(entry, targetname)
             THEN "Directory already exists on tape"
             ELSE IF ~stat_ok THEN "Error: FileNotFoundError"
             ELSE "ok"

\* variant that finds no archive item
existing_none(q, folder) == << >>

\* the archive items of the queue for a folder, in list order
existing(q, folder) ==
    SelectSeq(q, LAMBDA i : i.args[1] = folder /\ i.coroutine = "archive")

handle_archive(folder, tapelabel, targetname, priority, stat_ok) ==
    /\ Yield
    /\ nextId <= MaxItems
    /\ IF archive_validation(folder, tapelabel, targetname, stat_ok) # "ok"
         THEN UNCHANGED <<data, queueVars>>
         ELSE LET ex == existing(queue, folder)
                  entry == get_folder(data, folder)
                  name == target_filename(entry, targetname)
                  q1 == IF Len(ex) > 0 THEN remove(queue, ex[1].id) ELSE queue
              IN  IF Len(ex) > 0 /\ ex[1].running /\ ~is_error(ex[1])
                    THEN UNCHANGED <<data, queueVars>>  \* "already in the process"
                    ELSE /\ data' = Store(data, folder,
                               ("path_on_tape" :>
                                   (name \o (IF entry.compressed THEN ".tar.gz" ELSE "")))
                               @@ ("tape" :> tapelabel) @@ entry)
                         /\ queue' = append(q1,
                               WorkItem(nextId, priority, "archive",
                                        <<folder, tapelabel, name>>,
                                        <<"Archiving folder", folder, tapelabel>>))
                         /\ queueFile' = write_json(queue')
                         /\ nextId' = nextId + 1
    /\ UNCHANGED <<dbFile, resp, workerVars, libVars, apiCalls, rc, sd, procVars>>

\* what handle_archive writes to the client
archive_response(folder, tapelabel, targetname, stat_ok) ==
    IF archive_validation(folder, tapelabel, targetname, stat_ok) # "ok"
      THEN archive_validation(folder, tapelabel, targetname, stat_ok)
      ELSE LET ex == existing(queue, folder)
           IN  IF Len(ex) = 0 THEN "Archiving queued"
               ELSE IF ex[1].running /\ ex[1].error_msg = ""
               THEN "Folder is already in the process of being archived"
               ELSE "Removed existing archiving task for folder\nArchiving queued"

\* the subfolder argument as handle_restore passes it on
restore_subfolder(subfolder) ==
    CASE subfolder = ""     -> ""
      [] subfolder = "sub"  -> "sub/"
      [] subfolder = "sub/" -> "sub/"
      [] OTHER              -> subfolder \o "/"

\* what handle_restore writes to the client; dir is the state of
\* args.restore_path: "absent", "empty" or "nonempty"
restore_response(folder, dir) ==
    IF ~HasFolder(data, folder) THEN "Folder not prepared yet"
    ELSE IF get_folder(data, folder).state # "archived"
    THEN "Folder not archived yet."
    ELSE IF dir = "nonempty" THEN "Directory to restore to is not empty"
    ELSE "Restoring queued"

handle_restore(folder, dir, subfolder, priority) ==
    /\ Yield
    /\ nextId <= MaxItems
    /\ IF restore_response(folder, dir) # "Restoring queued"
         THEN UNCHANGED queueVars
         ELSE /\ queue' = append(queue,
                    WorkItem(nextId, priority, "restore",
                             <<folder, "/restore", restore_subfolder(subfolder)>>,
                             <<"Restoring folder", folder, "/restore">>))
              /\ queueFile' = write_json(queue')
              /\ nextId' = nextId + 1
    /\ UNCHANGED <<catalogVars, resp, workerVars, libVars, apiCalls, rc, sd, procVars>>

\* what handle_explore writes to the client
explore_response(tapelabel) ==
    IF find_tape(slots, tapelabel) = -1 THEN "Requested tape not found"
    ELSE "Exploring queued"

\* variant without the lookup of the tape
handle_explore_unchecked(tapelabel, priority) ==
    /\ Yield
    /\ nextId <= MaxItems
    /\ queue' = append(queue,
          WorkItem(nextId, priority, "explore", <<tapelabel, 600, None>>,
                   <<"Exploring tape", tapelabel>>))
    /\ queueFile' = write_json(queue')
    /\ nextId' = nextId + 1
    /\ UNCHANGED <<catalogVars, resp, workerVars, libVars, apiCalls, rc, sd, procVars>>

handle_explore(tapelabel, priority) ==
    /\ Yield
    /\ nextId <= MaxItems
    /\ IF explore_response(tapelabel) # "Exploring queued"
         THEN UNCHANGED queueVars
         ELSE /\ queue' = append(queue,
                    WorkItem(nextId, priority, "explore", <<tapelabel, 600, None>>,
                             <<"Exploring tape", tapelabel>>))
              /\ queueFile' = write_json(queue')
              /\ nextId' = nextId + 1
    /\ UNCHANGED <<catalogVars, resp, workerVars, libVars, apiCalls, rc, sd, procVars>>

-----------------------------------------------------------------------------
(* run_command: one call, from create_subprocess_exec to return or raise *)

\* lines a child writes, as readline() delivers them
ChildLines == {"a\n", " b\n"}

\* line.decode().strip()
strip(line) ==
    CASE line = "a\n"  -> "a"
      [] line = " b\n" -> "b"
      [] OTHER         -> line

\* "\n".join(lines)
RECURSIVE join(_)
join(lines) ==
    IF lines = << >> THEN ""
    ELSE IF Len(lines) = 1 THEN lines[1]
    ELSE lines[1] \o "\n" \o join(Tail(lines))

\* exit statuses of a child that was not signalled
ExitCodes == {0, 1}

\* returncode of a child that process.terminate() killed
Terminated == -15

RcIdle ==
    [pc |-> "idle", has_event |-> FALSE, is_set |-> FALSE,
     preserve_stdout |-> FALSE, preserve_stderr |-> TRUE,
     child |-> "none", exit_code |-> 0, terminated |-> FALSE,
     pipe_out |-> << >>, pipe_err |-> << >>,
     stdout_res |-> << >>, stderr_res |-> << >>, result |-> [kind |-> "none"]]

RcOnly ==
    UNCHANGED <<catalogVars, resp, queueVars, workerVars, libVars, apiCalls, sd, procVars>>

\* the call: the child is started, the reader tasks and monitor_abort are
\* created; is_set tells whether the caller's event is set already
RcCall(has_event, is_set, preserve_stdout, preserve_stderr) ==
    /\ rc.pc = "idle"
    /\ has_event \/ ~is_set
    /\ rc' = [RcIdle EXCEPT !.pc = "wait", !.has_event = has_event,
                            !.is_set = is_set,
                            !.preserve_stdout = preserve_stdout,
                            !.preserve_stderr = preserve_stderr,
                            !.child = "running"]
    /\ RcOnly

\* the child writes a line to stdout
RcWriteOut(line) ==
    /\ rc.pc = "wait" /\ rc.child = "running"
    /\ Len(rc.pipe_out) + Len(rc.stdout_res) < MaxLines
    /\ rc' = [rc EXCEPT !.pipe_out = Append(@, line)]
    /\ RcOnly

\* the child writes a line to stderr
RcWriteErr(line) ==
    /\ rc.pc = "wait" /\ rc.child = "running"
    /\ Len(rc.pipe_err) + Len(rc.stderr_res) < MaxLines
    /\ rc' = [rc EXCEPT !.pipe_err = Append(@, line)]
    /\ RcOnly

\* log_output(process.stdout, ...): one readline() that returned a line
RcReadOut ==
    /\ rc.pc = "wait"
    /\ rc.pipe_out # << >>
    /\ rc' = [rc EXCEPT !.pipe_out = Tail(@),
                        !.stdout_res = IF rc.preserve_stdout
                                         THEN Append(@, strip(Head(rc.pipe_out)))
                                         ELSE @]
    /\ RcOnly

\* log_output(process.stderr, ...): one readline() that returned a line
RcReadErr ==
    /\ rc.pc = "wait"
    /\ rc.pipe_err # << >>
    /\ rc' = [rc EXCEPT !.pipe_err = Tail(@),
                        !.stderr_res = IF rc.preserve_stderr
                                         THEN Append(@, strip(Head(rc.pipe_err)))
                                         ELSE @]
    /\ RcOnly

\* a handler sets the caller's event while the call is suspended
RcSetAbort ==
    /\ rc.pc = "wait"
    /\ rc.has_event /\ ~rc.is_set
    /\ rc' = [rc EXCEPT !.is_set = TRUE]
    /\ RcOnly

\* monitor_abort: the event is set, process.terminate()
RcMonitor ==
    /\ rc.pc = "wait"
    /\ rc.has_event /\ rc.is_set
    /\ ~rc.terminated
    /\ rc.child = "running"
    /\ rc' = [rc EXCEPT !.terminated = TRUE]
    /\ RcOnly

\* the child ends: by itself with one of ExitCodes, or by the signal
RcExit(code) ==
    /\ rc.pc = "wait" /\ rc.child = "running"
    /\ code = Terminated => rc.terminated
    /\ rc' = [rc EXCEPT !.child = "exited", !.exit_code = code]
    /\ RcOnly

\* process.wait() returned: the streams are joined, the tasks cancelled, and
\* the call raises CalledProcessError or returns (stdout, stderr)
RcFinish ==
    /\ rc.pc = "wait" /\ rc.child = "exited"
    /\ LET stdout == join(rc.stdout_res)
           stderr == join(rc.stderr_res)
       IN  rc' = [rc EXCEPT
                !.pc = "done",
                !.result =
                    IF run_command_outcome(rc.has_event, rc.is_set, rc.exit_code)
                          = "raise"
                      THEN [kind |-> "raise", returncode |-> rc.exit_code,
                            output |-> stdout, stderr |-> stderr]
                      ELSE [kind |-> "return", stdout |-> stdout,
                            stderr |-> stderr]]
    /\ RcOnly

RunNext ==
    \/ \E e \in BOOLEAN, s \in BOOLEAN, po \in BOOLEAN, pe \in BOOLEAN :
            RcCall(e, s, po, pe)
    \/ \E l \in ChildLines : RcWriteOut(l)
    \/ \E l \in ChildLines : RcWriteErr(l)
    \/ RcReadOut
    \/ RcReadErr
    \/ RcSetAbort
    \/ RcMonitor
    \/ \E c \in ExitCodes \cup {Terminated} : RcExit(c)
    \/ RcFinish

-----------------------------------------------------------------------------

InitSlots ==
    [n \in 0..NSlots |-> IF n \in 1..Len(TapeSeq) THEN TapeSeq[n] ELSE ""]

\* database.json as an earlier run of the daemon left it: no record, or one
\* prepared record
InitCatalogs ==
    { << >>,
      << set_prepared_compressed(new_entry("/nas/d1"), 1, FALSE) >> }

Init ==
    /\ data \in InitCatalogs
    /\ dbFile = data
    /\ resp = ""
    /\ queue = << >>
    /\ queueFile = << >>
    /\ nextId = 1
    /\ pc = "loop"
    /\ cur = 0
    /\ loc = LocInit
    /\ slots = InitSlots
    /\ mounted = FALSE
    /\ formatted = {}
    /\ onTape = [t \in Tapes |-> {}]
    /\ apiCalls = 0
    /\ rc = RcIdle
    /\ sd = "run"
    /\ files = NoFiles
    /\ main = [p \in Procs |-> "off"]

ApiNext ==
    \/ \E d \in Dirs : ApiCreateEntry(d)
    \/ \E d \in Dirs, s \in Sizes, c \in BOOLEAN : ApiSetPrepared(d, s, c)
    \/ \E d \in Dirs : ApiSetArchivingQueued(d, "AAK001L9")
    \/ \E d \in Dirs : ApiSetArchiving(d, "x")
    \/ \E d \in Dirs : ApiSetArchived(d)
    \/ \E d \in Dirs, s \in Sizes : ApiSetArchivedSize(d, s)

WorkerNext ==
    \/ WorkerPick
    \/ WorkerWake
    \/ PrepareStart
    \/ \E out \in DuOutcomes : PrepareSize(out)
    \/ \E ok \in BOOLEAN, many \in BOOLEAN : PrepareInodes(ok, many)
    \/ PrepareTar
    \/ \E out \in DuOutcomes : PrepareTarSize(out)
    \/ ArchiveStart
    \/ EtmEnter
    \/ Eum1
    \/ \E ok \in BOOLEAN : Umount1(ok)
    \/ Settle1
    \/ Eum2
    \/ \E ok \in BOOLEAN : Umount2(ok)
    \/ Settle2
    \/ EtuChk
    \/ \E ok \in BOOLEAN : Unload(ok)
    \/ EtlChk
    \/ \E ok \in BOOLEAN : Load(ok)
    \/ EtmLoaded
    \/ \E ok \in BOOLEAN : Mkltfs(ok)
    \/ EtmFs
    \/ \E ok \in BOOLEAN : Ltfs(ok)
    \/ ArchiveChk1
    \/ \E row \in BOOLEAN, enough \in BOOLEAN : ArchiveDf(row, enough)
    \/ \E ok \in BOOLEAN : ArchiveRsync(ok)
    \/ ArchiveRm
    \/ ArchiveFind
    \/ ArchiveCopy
    \/ ArchiveCfe1
    \/ \E equal \in BOOLEAN : ArchiveCfe2(equal)
    \/ \E out \in DuOutcomes : ArchiveDuTape(out)

\* reached only once set_archived succeeded
ArchiveTailNext ==
    \/ ArchiveFin
    \/ ArchiveDone

ArchiveTapes == Tapes \cup {"ZZZ999L9"}

HandlerNext ==
    \/ \E id \in 1..MaxItems : handle_abort(id)
    \/ \E id \in 1..MaxItems : handle_requeue(id)
    \/ \E d \in Dirs, c \in BOOLEAN, ok \in BOOLEAN :
            handle_prepare(d, c, 0, ok)
    \/ \E d \in Dirs, t \in ArchiveTapes, n \in {"", "x"}, ok \in BOOLEAN :
            handle_archive(d, t, n, 100, ok)

Next == WorkerNext \/ HandlerNext

Spec == Init /\ [][Next]_vars

\* the event loop resumes the worker whenever what it awaits is done, and
\* every child process and sleep ends
FairSpec == Spec /\ WF_vars(WorkerNext)

\* the catalog API alone
CatalogNext == ApiNext /\ UNCHANGED apiCalls

CatalogSpec == Init /\ [][CatalogNext]_vars

\* the daemon, and a client of the catalog API that calls, between the steps
\* of the daemon, the two setters no handler or task calls
OutsideApiNext ==
    /\ Yield
    /\ apiCalls < MaxApiCalls
    /\ apiCalls' = apiCalls + 1
    /\ \/ \E d \in Dirs : ApiSetArchivingQueued(d, "AAK001L9")
       \/ \E d \in Dirs : ApiSetArchiving(d, "x")

ApiSpec == Init /\ [][Next \/ ArchiveTailNext \/ OutsideApiNext]_vars

\* one run_command call
RunSpec == Init /\ [][RunNext]_vars

-----------------------------------------------------------------------------
(* Shutdown: main() after SIGINT or SIGTERM.  The worker task is not        *)
(* cancelled before cleanup(); it runs on until main() returns.             *)

CleanupOnly ==
    UNCHANGED <<catalogVars, resp, queueVars, workerVars, slots, formatted,
                onTape, apiCalls, rc, procVars>>

\* handle_signal set shutdown_event: main() closes the server
ShutdownSignal ==
    /\ sd = "run"
    /\ Yield
    /\ sd' = "closing"
    /\ UNCHANGED mounted
    /\ CleanupOnly

\* cleanup(): ensure_tape_unmounted, first pass; "c_umount1": umount is issued
CleanupEum1 ==
    /\ sd = "closing"
    /\ Yield
    /\ sd' = IF mounted THEN "c_umount1" ELSE "c_eum2"
    /\ UNCHANGED mounted
    /\ CleanupOnly

\* umount /ltfs is over (ok: it succeeded; run_command returns either way),
\* then sleep(5)
CleanupUmount1(ok) ==
    /\ sd = "c_umount1"
    /\ Yield
    /\ mounted' = IF ok THEN FALSE ELSE mounted
    /\ sd' = "c_settle1"
    /\ CleanupOnly

\* sleep(5) is over; second pass
CleanupEum2 ==
    /\ sd \in {"c_settle1", "c_eum2"}
    /\ Yield
    /\ sd' = IF mounted THEN "c_umount2" ELSE "stopped"
    /\ UNCHANGED mounted
    /\ CleanupOnly

CleanupUmount2(ok) ==
    /\ sd = "c_umount2"
    /\ Yield
    /\ mounted' = IF ok THEN FALSE ELSE mounted
    /\ sd' = "c_settle2"
    /\ CleanupOnly

\* the last sleep(5) is over: the files are unlinked, main() returns
CleanupDone ==
    /\ sd = "c_settle2"
    /\ Yield
    /\ sd' = "stopped"
    /\ UNCHANGED mounted
    /\ CleanupOnly

CleanupNext ==
    \/ ShutdownSignal
    \/ CleanupEum1
    \/ \E ok \in BOOLEAN : CleanupUmount1(ok)
    \/ CleanupEum2
    \/ \E ok \in BOOLEAN : CleanupUmount2(ok)
    \/ CleanupDone

\* commands are served until the server is closed, the worker runs until
\* main() has returned
ShutdownNext ==
    \/ sd # "stopped" /\ WorkerNext
    \/ sd = "run" /\ HandlerNext
    \/ CleanupNext

ShutdownSpec == Init /\ [][ShutdownNext]_vars

-----------------------------------------------------------------------------
(* main() of service.py from its first line to the exit of the process,    *)
(* for NProcs daemon processes on one host.  files.lock is the holder of   *)
(* the flock on the file PID_FILE names now; a file that was unlinked      *)
(* while a process had it open, and a lock on it, concern nobody else.     *)

Running == {"open", "flock", "write", "started", "serving", "closing",
            "unlink", "finally"}

\* exit status 0 / sys.exit(1) / an exception left main() / kill -9
Stopped == {"off", "exit0", "exit1", "raised", "killed"}

At(p, from, to) ==
    /\ main[p] = from
    /\ main' = [main EXCEPT ![p] = to]

ProcOnly ==
    UNCHANGED <<catalogVars, resp, queueVars, workerVars, slots, formatted,
                onTape, apiCalls, rc, sd>>

\* a process is started: if os.path.isfile(PID_FILE): sys.exit(1)
MainStart(p) ==
    /\ main[p] \in Stopped
    /\ main' = [main EXCEPT ![p] = IF files.pid THEN "exit1" ELSE "open"]
    /\ UNCHANGED <<files, mounted>>
    /\ ProcOnly

\* open(PID_FILE, "w"): the file is created, or truncated
MainOpen(p) ==
    /\ At(p, "open", "flock")
    /\ files' = [files EXCEPT !.pid = TRUE, !.fd = @ \cup {p}]
    /\ UNCHANGED mounted
    /\ ProcOnly

\* fcntl.flock(f, LOCK_EX | LOCK_NB): BlockingIOError when another process
\* holds the lock; the with statement closes the file and main() is left
MainFlock(p) ==
    /\ main[p] = "flock"
    /\ IF p \in files.fd /\ files.lock \notin {0, p}
         THEN /\ main' = [main EXCEPT ![p] = "raised"]
              /\ files' = [files EXCEPT !.fd = @ \ {p}]
         ELSE /\ main' = [main EXCEPT ![p] = "write"]
              /\ files' = [files EXCEPT !.lock = IF p \in files.fd THEN p ELSE @]
    /\ UNCHANGED mounted
    /\ ProcOnly

\* f.write(str(os.getpid())) and the end of the with statement: the file is
\* closed, which releases the lock
MainWrite(p) ==
    /\ At(p, "write", "started")
    /\ files' = [files EXCEPT !.lock = IF @ = p THEN 0 ELSE @, !.fd = @ \ {p}]
    /\ UNCHANGED mounted
    /\ ProcOnly

\* signal.signal(...); os.remove(SOCKET_FILE) if it exists; WorkList();
\* create_unix_server binds SOCKET_FILE
MainServe(p) ==
    /\ At(p, "started", "serving")
    /\ files' = [files EXCEPT !.sock = p]
    /\ UNCHANGED mounted
    /\ ProcOnly

\* handle_signal set shutdown_event: server.close(), wait_closed(), cancel
MainSignal(p) ==
    /\ At(p, "serving", "closing")
    /\ UNCHANGED <<files, mounted>>
    /\ ProcOnly

\* cleanup(): ensure_tape_unmounted is over (unmounted: umount succeeded);
\* an exception of it is logged
MainCleanupUnmount(p, unmounted) ==
    /\ At(p, "closing", "unlink")
    /\ mounted' = IF unmounted THEN FALSE ELSE mounted
    /\ UNCHANGED files
    /\ ProcOnly

\* cleanup(): os.unlink of PID_FILE and SOCKET_FILE, FileNotFoundError passed
MainCleanupUnlink(p) ==
    /\ At(p, "unlink", "finally")
    /\ files' = NoFiles
    /\ UNCHANGED mounted
    /\ ProcOnly

\* finally: os.remove(PID_FILE); os.remove(SOCKET_FILE).  os.remove raises
\* FileNotFoundError for a missing file, and nothing catches it
MainFinally(p) ==
    /\ main[p] = "finally"
    /\ IF ~files.pid
         THEN /\ main' = [main EXCEPT ![p] = "raised"]
              /\ UNCHANGED files
         ELSE IF files.sock = 0
         THEN /\ main' = [main EXCEPT ![p] = "raised"]
              /\ files' = [files EXCEPT !.pid = FALSE, !.lock = 0, !.fd = {}]
         ELSE /\ main' = [main EXCEPT ![p] = "exit0"]
              /\ files' = NoFiles
    /\ UNCHANGED mounted
    /\ ProcOnly

\* kill -9: the process ends where it is; its lock goes, its files stay
Kill(p) ==
    /\ main[p] \in Running
    /\ main' = [main EXCEPT ![p] = "killed"]
    /\ files' = [files EXCEPT !.lock = IF @ = p THEN 0 ELSE @, !.fd = @ \ {p}]
    /\ UNCHANGED mounted
    /\ ProcOnly

\* the drive is empty, or holds the first tape with /ltfs mounted or not
ProcInit ==
    /\ data = << >>
    /\ dbFile = data
    /\ resp = ""
    /\ queue = << >>
    /\ queueFile = << >>
    /\ nextId = 1
    /\ pc = "sleep"
    /\ cur = 0
    /\ loc = LocInit
    /\ slots \in {InitSlots, mtx_load(InitSlots, 1)}
    /\ mounted \in (IF slots[0] = "" THEN {FALSE} ELSE BOOLEAN)
    /\ formatted = {slots[0]} \ {""}
    /\ onTape = [t \in Tapes |-> {}]
    /\ apiCalls = 0
    /\ rc = RcIdle
    /\ sd = "run"
    /\ files = NoFiles
    /\ main = [p \in Procs |-> "off"]

ProcNext ==
    \E p \in Procs :
        \/ MainStart(p)
        \/ MainOpen(p)
        \/ MainFlock(p)
        \/ MainWrite(p)
        \/ MainServe(p)
        \/ MainSignal(p)
        \/ \E unmounted \in BOOLEAN : MainCleanupUnmount(p, unmounted)
        \/ MainCleanupUnlink(p)
        \/ MainFinally(p)
        \/ Kill(p)

ProcSpec == ProcInit /\ [][ProcNext]_vars

-----------------------------------------------------------------------------
(* The daemon killed and started again *)

MaxIds == 4          \* WorkItem identities handed out, restarts included

\* kill -9 at any moment, then main(): JsonDatabase and WorkList are read
\* from their files, a new worker starts; drive and mount stay as they are
Restart ==
    /\ nextId + Len(queueFile) <= MaxIds + 1
    /\ queue' = read_json(queueFile, nextId)
    /\ nextId' = nextId + Len(queueFile)
    /\ data' = dbFile
    /\ pc' = "loop"
    /\ cur' = 0
    /\ loc' = LocInit
    /\ UNCHANGED <<dbFile, resp, queueFile, libVars, apiCalls, rc, sd, procVars>>

RestartNext ==
    \/ Next
    \/ Restart
    \/ \E id \in (MaxItems + 1)..MaxIds : handle_abort(id)
    \/ \E id \in (MaxItems + 1)..MaxIds : handle_requeue(id)

RestartSpec == Init /\ [][RestartNext]_vars

-----------------------------------------------------------------------------
(* The worker's choice over the queues a queue file can hold *)

MaxQueue == 3        \* items of a rehydrated queue

Prios == {0, 50, 100}

\* item k of a rehydrated queue: priority p, error_msg m
Rehydrated(k, p, m) ==
    [WorkItem(k, p, "prepare", <<"/nas/d1", FALSE>>,
              <<"Preparing folder", "/nas/d1">>)
        EXCEPT !.error_msg = m, !.created = strptime(Timestamp)]

RehydratedQueues ==
    UNION { { [k \in 1..n |-> Rehydrated(k, ps[k], ms[k])] :
                ps \in [1..n -> Prios], ms \in [1..n -> {"", "boom"}] } :
            n \in 0..MaxQueue }

TopInit ==
    /\ data = << >>
    /\ dbFile = data
    /\ resp = ""
    /\ queue \in RehydratedQueues
    /\ queueFile = write_json(queue)
    /\ nextId = Len(queue) + 1
    /\ pc = "loop"
    /\ cur = 0
    /\ loc = LocInit
    /\ slots = InitSlots
    /\ mounted = FALSE
    /\ formatted = {}
    /\ onTape = [t \in Tapes |-> {}]
    /\ apiCalls = 0
    /\ rc = RcIdle
    /\ sd = "run"
    /\ files = NoFiles
    /\ main = [p \in Procs |-> "off"]

TopSpec == TopInit /\ [][WorkerPick \/ WorkerWake]_vars

-----------------------------------------------------------------------------
(* The validating handlers, called one after the other while the worker    *)
(* sleeps on an empty queue's sleep(1)                                     *)

\* the records database.json can hold for a directory: none, one that the
\* setters took to prepared, or one they took to archived
RecordChoices(d) ==
    { << >> }
    \cup { << set_prepared_compressed(new_entry(d), sz, FALSE) >> : sz \in Sizes }
    \cup { << set_archived(set_archiving(set_archiving_queued(
                 set_prepared_compressed(new_entry(d), sz, FALSE), "AAK001L9"),
                 suggest_ontape_name(new_entry(d)))) >> : sz \in Sizes }

ValidationCatalogs ==
    { a \o b : a \in RecordChoices("/nas/d1"), b \in RecordChoices("/nas/d2") }

ValidationInit ==
    /\ data \in ValidationCatalogs
    /\ dbFile = data
    /\ resp = ""
    /\ queue = << >>
    /\ queueFile = << >>
    /\ nextId = 1
    /\ pc = "sleep"
    /\ cur = 0
    /\ loc = LocInit
    /\ slots = InitSlots
    /\ mounted = FALSE
    /\ formatted = {}
    /\ onTape = [t \in Tapes |-> {}]
    /\ apiCalls = 0
    /\ rc = RcIdle
    /\ sd = "run"
    /\ files = NoFiles
    /\ main = [p \in Procs |-> "off"]

RestoreDirs == {"absent", "empty", "nonempty"}

ValidationNext ==
    \/ \E d \in Dirs, c \in BOOLEAN, ok \in BOOLEAN :
            handle_prepare(d, c, 0, ok)
    \/ \E d \in Dirs, t \in ArchiveTapes, n \in {"", "x", "d2"}, ok \in BOOLEAN :
            handle_archive(d, t, n, 100, ok)
    \/ \E d \in Dirs, dir \in RestoreDirs, sub \in {"", "sub"} :
            handle_restore(d, dir, sub, 100)
    \/ \E t \in ArchiveTapes : handle_explore(t, 20)

ValidationSpec == ValidationInit /\ [][ValidationNext]_vars

-----------------------------------------------------------------------------
(* Properties *)

StateChain ==
    <<"preparing", "prepared", "archiving_queued", "archiving", "archived">>

Rank(st) == CHOOSE i \in 1..Len(StateChain) : StateChain[i] = st

\* between two versions of the catalog, every record that is in both keeps
\* its state or moves to the next state of the chain
ChainStep(db, db2) ==
    \A d \in Dirs :
        HasFolder(db, d) /\ HasFolder(db2, d) =>
            LET a == Rank(get_folder(db, d).state)
                b == Rank(get_folder(db2, d).state)
            IN  b = a \/ b = a + 1

\* C1: whatever step the catalog API, a handler or a task takes, a record's
\* state, in memory and in database.json, stays or advances by exactly one
\* state of preparing -> prepared -> archiving_queued -> archiving -> archived.
C1_StateChain == [][ChainStep(data, data') /\ ChainStep(dbFile, dbFile')]_vars

\* C1: the archive task reached set_archived on a record the archive handler
\* left prepared: the item failed and the record is still prepared.
C1_Witness ==
    \E k \in 1..Len(queue) :
        /\ queue[k].coroutine = "archive"
        /\ queue[k].error_msg = InvalidTransition
        /\ HasFolder(data, queue[k].args[1])
        /\ get_folder(data, queue[k].args[1]).state = "prepared"

WrongState(d, source) ==
    HasFolder(data, d) /\ get_folder(data, d).state # source

Rejected ==
    resp' = InvalidTransition /\ data' = data /\ dbFile' = dbFile

\* C2: a call of set_prepared, set_archiving_queued, set_archiving or
\* set_archived on a record that is not in the setter's source state answers
\* with the invalid-transition error and changes neither the record nor the
\* catalog file.
C2_SettersReject ==
    [][\A d \in Dirs :
        /\ (/\ WrongState(d, "preparing")
            /\ \E sz \in Sizes, c \in BOOLEAN : ApiSetPrepared(d, sz, c))
               => Rejected
        /\ (/\ WrongState(d, "prepared")
            /\ \E t \in Tapes : ApiSetArchivingQueued(d, t))
               => Rejected
        /\ (/\ WrongState(d, "archiving_queued")
            /\ ApiSetArchiving(d, "x"))
               => Rejected
        /\ (/\ WrongState(d, "archiving")
            /\ (ApiSetArchived(d) \/ \E sz \in Sizes : ApiSetArchivedSize(d, sz)))
               => Rejected
      ]_vars

\* C2: a setter was refused on a record that went past the setter's source
\* state.
C2_Witness ==
    /\ resp = InvalidTransition
    /\ \E d \in Dirs : HasFolder(data, d) /\ get_folder(data, d).state = "archived"
    /\ dbFile = data

Healthy(q) == {k \in 1..Len(q) : q[k].error_msg = ""}

\* C3: get_top is None exactly when no item has an empty error_msg; otherwise
\* it is a healthy item no healthy item beats on priority, and no healthy item
\* of the same priority stands before it in the list.
C3_GetTop ==
    /\ get_top(queue) = 0 <=> Healthy(queue) = {}
    /\ Healthy(queue) # {} =>
          \E k \in Healthy(queue) :
              /\ queue[k].id = get_top(queue)
              /\ \A j \in Healthy(queue) :
                    \/ queue[k].priority < queue[j].priority
                    \/ queue[k].priority = queue[j].priority /\ k <= j

\* C3: the worker picked the second of three items: the first has the lowest
\* priority but failed, the second and third tie.
C3_Witness ==
    /\ Len(queue) = 3
    /\ queue[1].error_msg # "" /\ queue[1].priority < queue[2].priority
    /\ queue[2].error_msg = "" /\ queue[3].error_msg = ""
    /\ queue[2].priority = queue[3].priority
    /\ pc = "start" /\ cur = queue[2].id

\* the worker is executing the task of an item
Executing == cur # 0

\* C4: the worker never executes an item with an error_msg and never dies; a
\* step that ends a task with the item still queued leaves it with a
\* non-empty error_msg and the worker back at the top of its loop; only
\* handle_requeue takes an item from failed to healthy.
C4_FailureIsolation ==
    /\ [](/\ pc # "dead"
          /\ Executing => cur \in Ids(queue) /\ ~is_error(CurItem))
    /\ [][/\ (Executing /\ cur' = 0 /\ cur \in Ids(queue'))
                => is_error(Item(queue', cur)) /\ pc' = "loop"
          /\ \A id \in Ids(queue) \cap Ids(queue') :
                (is_error(Item(queue, id)) /\ ~is_error(Item(queue', id)))
                    => handle_requeue(id)
         ]_vars

\* C4: one item failed and stays queued while the worker executes another.
C4_Witness ==
    /\ Executing
    /\ \E k \in 1..Len(queue) : is_error(queue[k]) /\ queue[k].id # cur

\* C5: an item's running flag is set only while the worker executes that
\* item, so no two items have it set, and it is clear once the task is over.
C5_RunningOnlyWhileExecuting ==
    /\ \A k \in 1..Len(queue) : queue[k].running => cur = queue[k].id
    /\ Cardinality({k \in 1..Len(queue) : queue[k].running}) <= 1

\* C6: handle_abort for a queued item the worker is not executing removes the
\* item from the queue and from queue.json.
C6_AbortRemovesIdle ==
    [][\A id \in 1..MaxItems :
          (handle_abort(id) /\ id \in Ids(queue) /\ cur # id)
              => /\ id \notin Ids(queue')
                 /\ queueFile' = write_json(queue')
      ]_vars

\* C7: handle_abort for the item the worker is executing keeps the item queued
\* with its abort flag set, and no step clears the abort flag of an item, so
\* every later check of the task reads it set.
C7_AbortFlagSticks ==
    [][/\ \A id \in 1..MaxItems :
             (handle_abort(id) /\ Executing /\ cur = id)
                 => id \in Ids(queue') /\ Item(queue', id).abort /\ cur' = id
       /\ \A id \in Ids(queue) \cap Ids(queue') :
             Item(queue, id).abort => Item(queue', id).abort
      ]_vars

\* C7: the abort arrived while the archive task waits for find: the item is
\* still queued and executing, with its flag set.
C7_Witness ==
    /\ Executing
    /\ CurItem.abort
    /\ pc = "find"

\* positions of a task whose next step is an abort check
AbortCheckpoints == {"p_du1", "p_du2", "p_du3", "a_chk1", "find"}

\* C8: the step a task takes from an abort checkpoint with the flag set ends
\* the task with the item removed from the queue, and the record of an
\* archive stays prepared.
C8_AbortIsSuccess ==
    [][(Executing /\ pc \in AbortCheckpoints /\ pc' # pc /\ CurItem.abort)
          => /\ cur' = 0
             /\ cur \notin Ids(queue')
             /\ CurItem.coroutine = "archive"
                    => get_folder(data', Folder).state = "prepared"
      ]_vars

\* C9: a call whose event is set when process.wait() returns, returns the
\* joined streams and raises nothing, whatever the exit status.
C9_AbortedCallReturns ==
    (rc.pc = "done" /\ rc.has_event /\ rc.is_set)
        => /\ rc.result.kind = "return"
           /\ rc.result.stdout = join(rc.stdout_res)
           /\ rc.result.stderr = join(rc.stderr_res)

\* C10: a call without a set event raises CalledProcessError with the exit
\* code and the captured streams when the child exits non-zero, and returns
\* (stdout, stderr) when it exits with zero.
C10_FailedCallRaises ==
    (rc.pc = "done" /\ ~(rc.has_event /\ rc.is_set))
        => IF rc.exit_code # 0
             THEN /\ rc.result.kind = "raise"
                  /\ rc.result.returncode = rc.exit_code
                  /\ rc.result.output = join(rc.stdout_res)
                  /\ rc.result.stderr = join(rc.stderr_res)
             ELSE /\ rc.result.kind = "return"
                  /\ rc.result.stdout = join(rc.stdout_res)
                  /\ rc.result.stderr = join(rc.stderr_res)

TopIdx(q) == IF get_top(q) = 0 THEN 0 ELSE ItemIdx(q, get_top(q))

\* C11: the queue read from queue.json after a kill holds the items the
\* queue held in memory before it, in the same order and with the same
\* priority, coroutine, args, description, created and error_msg; none of
\* them is running, none has its abort flag set, and get_top returns the
\* item at the same position as before.
C11_Rehydration ==
    [][Restart =>
          /\ write_json(queue') = write_json(queue)
          /\ \A k \in 1..Len(queue') :
                ~queue'[k].running /\ ~queue'[k].abort
          /\ TopIdx(queue') = TopIdx(queue)
      ]_vars

\* C12: queue.json is the serialization of the queue in memory whenever no
\* queue operation is under way.
C12_FileMatchesQueue == queueFile = write_json(queue)

\* C14: the shutdown cleanup issues umount /ltfs only when the worker is
\* executing no task, and the mount changes under an executing task only by
\* that task's own steps.
C14_SoleDriver ==
    [][/\ (sd' # sd /\ sd' \in {"c_umount1", "c_umount2"}) => ~Executing
       /\ (Executing /\ mounted' # mounted) => sd' = sd
      ]_vars

\* the records committed to a tape when an archive command for folder
\* arrives: those of the other folders that carry the tape's label
committed(db, tape, folder) ==
    SelectSeq(get_directories_on_tape(db, tape),
              LAMBDA e : e.original_directory # folder)

C15_RejectionKeepsQueue ==
    [][/\ \A d \in Dirs, c \in BOOLEAN, ok \in BOOLEAN :
            (/\ handle_prepare(d, c, 0, ok)
             /\ prepare_response(d, ok) # "Preparation queued")
                => UNCHANGED <<queue, queueFile>>
       /\ \A d \in Dirs, t \in ArchiveTapes, n \in {"", "x", "d2"}, ok \in BOOLEAN :
            (/\ handle_archive(d, t, n, 100, ok)
             /\ archive_response(d, t, n, ok) \notin
                   {"Archiving queued",
                    "Removed existing archiving task for folder\nArchiving queued"})
                => UNCHANGED <<queue, queueFile>>
       /\ \A d \in Dirs, dir \in RestoreDirs, sub \in {"", "sub"} :
            (/\ handle_restore(d, dir, sub, 100)
             /\ restore_response(d, dir) # "Restoring queued")
                => UNCHANGED <<queue, queueFile>>
       /\ \A t \in ArchiveTapes :
            (handle_explore(t, 20) /\ explore_response(t) # "Exploring queued")
                => UNCHANGED <<queue, queueFile>>
      ]_vars

\* C15: with an item queued, each of the four commands has an input that the
\* handler rejects.
C15_Witness ==
    /\ Len(queue) > 0
    /\ queueFile = write_json(queue)
    /\ nextId <= MaxItems
    /\ \E d \in Dirs : prepare_response(d, TRUE) = "Error: " \o AlreadyExists
    /\ \E d \in Dirs, t \in ArchiveTapes :
          archive_response(d, t, "", TRUE) = "Folder is in the wrong state"
    /\ \E d \in Dirs : restore_response(d, "empty") = "Folder not archived yet."
    /\ \E t \in ArchiveTapes : explore_response(t) = "Requested tape not found"

\* positions of the archive items for a folder
ArchiveItems(q, d) ==
    {k \in 1..Len(q) : q[k].coroutine = "archive" /\ q[k].args[1] = d}

\* C17: the queue never holds two archive items for one folder; an archive
\* command that passes validation and finds an archive item for its folder
\* leaves the queue unchanged when that item has running set and no error,
\* and otherwise removes it and appends the new item, persisting the queue.
C17_OneArchiveItem ==
    /\ [](\A d \in Dirs : Cardinality(ArchiveItems(queue, d)) <= 1)
    /\ [][\A d \in Dirs, t \in ArchiveTapes, n \in {"", "x"} :
            (/\ handle_archive(d, t, n, 100, TRUE)
             /\ archive_validation(d, t, n, TRUE) = "ok"
             /\ ArchiveItems(queue, d) # {})
                => LET old == queue[CHOOSE k \in ArchiveItems(queue, d) : TRUE]
                   IN  IF old.running /\ old.error_msg = ""
                         THEN UNCHANGED <<queue, queueFile>>
                         ELSE /\ old.id \notin Ids(queue')
                              /\ \E k \in ArchiveItems(queue', d) :
                                    queue'[k].id = nextId
                              /\ queueFile' = write_json(queue')
         ]_vars

\* C17: an archive command that passes validation meets a failed archive item
\* for its folder, which it will replace.
C17_Witness ==
    /\ Yield
    /\ nextId <= MaxItems
    /\ \E d \in Dirs, t \in ArchiveTapes :
          /\ archive_validation(d, t, "", TRUE) = "ok"
          /\ \E k \in ArchiveItems(queue, d) : queue[k].error_msg # ""

\* positions of prepare whose next step is one of its three abort checks
PrepareCheckpoints == {"p_du1", "p_du2", "p_du3"}

\* C18: the step prepare takes from one of its abort checks with the flag
\* set removes the folder's record from the catalog, in memory and in
\* database.json, and ends the task with its item out of the queue, so that
\* a prepare command for the folder is accepted again.
C18_AbortedPrepare ==
    [][(/\ Executing
        /\ CurItem.coroutine = "prepare"
        /\ pc \in PrepareCheckpoints
        /\ CurItem.abort
        /\ pc' # pc)
          => /\ ~HasFolder(data', Folder)
             /\ ~HasFolder(dbFile', Folder)
             /\ cur' = 0
             /\ cur \notin Ids(queue')
      ]_vars

\* C19: no two records of the catalog have the same original_directory;
\* create_entry for a directory that has a record raises and leaves catalog
\* and file alone, and for any other directory appends a record in state
\* preparing and writes the file.
C19_CreateEntry ==
    /\ [](\A i, j \in 1..Len(data) :
             data[i].original_directory = data[j].original_directory => i = j)
    /\ [][\A d \in Dirs :
            ApiCreateEntry(d) =>
                IF \E i \in 1..Len(data) : data[i].original_directory = d
                  THEN UNCHANGED <<data, dbFile>> /\ resp' = AlreadyExists
                  ELSE /\ data' = Append(data,
                             [original_directory |-> d, state |-> "preparing",
                              description |-> "descr"])
                       /\ dbFile' = data'
         ]_vars

\* C19: create_entry has just refused a directory that has a record, next to
\* a record it created.
C19_Witness ==
    /\ resp = AlreadyExists
    /\ \E i \in 1..Len(data) : data[i].state = "preparing"
    /\ dbFile = data

BaseFields == {"original_directory", "state", "description"}

\* the fields a record has in each state
Permitted(state) ==
    CASE state = "preparing"        -> BaseFields
      [] state = "prepared"         ->
            BaseFields \cup {"size", "size_queried", "compressed"}
      [] state = "archiving_queued" ->
            BaseFields \cup {"size", "size_queried", "compressed", "tape"}
      [] state = "archiving"        ->
            BaseFields \cup {"size", "size_queried", "compressed", "tape",
                             "path_on_tape"}
      [] state = "archived"         ->
            BaseFields \cup {"size", "size_queried", "compressed", "tape",
                             "path_on_tape", "archived"}

\* C20: every record of the catalog, in memory and in database.json, has
\* exactly the fields of its state.
C20_FieldsByState ==
    /\ \A i \in 1..Len(data) : DOMAIN data[i] = Permitted(data[i].state)
    /\ \A i \in 1..Len(dbFile) : DOMAIN dbFile[i] = Permitted(dbFile[i].state)

-----------------------------------------------------------------------------
(* Archive commands against a changer that holds a cleaning cartridge and   *)
(* whose drive an earlier run may have left loaded and mounted              *)

\* the catalog: /nas/d1 prepared, /nas/d2 unknown or archived on AAK001L9
LibCatalogs ==
    { << set_prepared_compressed(new_entry("/nas/d1"), 1, FALSE) >>,
      << set_prepared_compressed(new_entry("/nas/d1"), 1, FALSE),
         set_archived(set_archiving(set_archiving_queued(
             set_prepared_compressed(new_entry("/nas/d2"), 1, FALSE),
             "AAK001L9"), "d2")) >> }

\* slot 3 holds the cleaning cartridge; the drive is empty or holds the tape
\* of slot n
LibSlots ==
    { [k \in 0..NSlots |->
          CASE k = 0 -> IF n = 0 THEN "" ELSE TapeSeq[n]
            [] k = 3 -> "CLN001L9"
            [] OTHER -> IF k = n THEN "" ELSE TapeSeq[k]] : n \in 0..2 }

LibInit ==
    /\ data \in LibCatalogs
    /\ dbFile = data
    /\ resp = ""
    /\ queue = << >>
    /\ queueFile = << >>
    /\ nextId = 1
    /\ pc = "loop"
    /\ cur = 0
    /\ loc = LocInit
    /\ slots \in LibSlots
    /\ mounted \in (IF slots[0] = "" THEN {FALSE} ELSE BOOLEAN)
    /\ formatted = {t \in Tapes : should_have_fs(data, t) \/ (mounted /\ slots[0] = t)}
    /\ onTape = [t \in Tapes |-> IF should_have_fs(data, t) THEN {"d2"} ELSE {}]
    /\ apiCalls = 0
    /\ rc = RcIdle
    /\ sd = "run"
    /\ files = NoFiles
    /\ main = [p \in Procs |-> "off"]

\* tape labels of the archive command: the data tapes, the cleaning
\* cartridge, a label without its suffix
LibLabels == Tapes \cup CleaningTags \cup ShortTags

LibWorkerNext ==
    \/ WorkerPick
    \/ WorkerWake
    \/ ArchiveStart
    \/ EtmEnter
    \/ Eum1
    \/ \E ok \in BOOLEAN : Umount1(ok)
    \/ Settle1
    \/ Eum2
    \/ \E ok \in BOOLEAN : Umount2(ok)
    \/ Settle2
    \/ EtuChk
    \/ \E ok \in BOOLEAN : Unload(ok)
    \/ EtlChk
    \/ \E ok \in BOOLEAN : Load(ok)
    \/ EtmLoaded
    \/ \E ok \in BOOLEAN : Mkltfs(ok)
    \/ EtmFs
    \/ \E ok \in BOOLEAN : Ltfs(ok)
    \/ ArchiveChk1
    \/ \E row \in BOOLEAN, enough \in BOOLEAN : ArchiveDf(row, enough)
    \/ ArchiveFind
    \/ ArchiveCopy
    \/ ArchiveCfe1
    \/ \E equal \in BOOLEAN : ArchiveCfe2(equal)
    \/ \E out \in DuOutcomes : ArchiveDuTape(out)

LibNext ==
    \/ LibWorkerNext
    \/ \E id \in 1..MaxItems : handle_abort(id)
    \/ \E id \in 1..MaxItems : handle_requeue(id)
    \/ \E t \in LibLabels : handle_archive("/nas/d1", t, "", 100, TRUE)

LibSpec == LibInit /\ [][LibNext]_vars

-----------------------------------------------------------------------------
(* JsonDatabase.place_directory, called on catalogs the setters produce *)

DoesntFit == "doesn't fit"

MustBePrepared == "ValueError: Directory must be prepared"

\* the keys of sums in insertion order: all_tapes, then every tape a record
\* names that is not a key yet
RECURSIVE sums_keys(_, _)
sums_keys(db, keys) ==
    IF db = << >> THEN keys
    ELSE LET tape == get(Head(db), "tape")
         IN  sums_keys(Tail(db),
                 IF tape = None \/ \E k \in 1..Len(keys) : keys[k] = tape
                   THEN keys
                   ELSE Append(keys, tape))

\* sums[tape]: the sizes of the records that name the tape
sums_of(db, tape) == SumSize(SelectSeq(db, LAMBDA e : get(e, "tape") = tape))

\* variant that sorts the other way round
InsertAscending(s, x) ==
    LET before == {k \in 0..Len(s) : \A j \in 1..k : s[j].used <= x.used}
        n == CHOOSE k \in before : \A m \in before : m <= k
    IN  SubSeq(s, 1, n) \o <<x>> \o SubSeq(s, n + 1, Len(s))

\* one step of sorted(..., reverse=True): x goes behind every item that is not
\* smaller, which keeps the order of equal items
InsertDescending(s, x) ==
    LET before == {k \in 0..Len(s) : \A j \in 1..k : s[j].used >= x.used}
        n == CHOOSE k \in before : \A m \in before : m <= k
    IN  SubSeq(s, 1, n) \o <<x>> \o SubSeq(s, n + 1, Len(s))

RECURSIVE ordered_by_used(_)
ordered_by_used(s) ==
    IF s = << >> THEN << >>
    ELSE InsertDescending(ordered_by_used(SubSeq(s, 1, Len(s) - 1)), s[Len(s)])

\* variant that lets a directory fill the tape exactly
fits_or_fills(used, size, maxsize) == used + size <= maxsize

\* "(i[1] + entry["size"]) < ConfigReader().get_maxsize()"
fits(used, size, maxsize) == used + size < maxsize

place_directory(db, entry, all_tapes) ==
    IF entry.state # "prepared" THEN MustBePrepared
    ELSE LET keys == sums_keys(db, all_tapes)
             sums == [k \in 1..Len(keys) |->
                         [tape |-> keys[k], used |-> sums_of(db, keys[k])]]
             ordered == SelectSeq(ordered_by_used(sums),
                            LAMBDA i : fits(i.used, entry.size, tape_max_size))
         IN  IF Len(ordered) = 0 THEN DoesntFit ELSE ordered[1].tape

PlaceDirs == Dirs \cup {"/nas/d3"}

\* the records of a directory that names a tape: queued for it or archived
TapedRecords(d) ==
    { set_archiving_queued(set_prepared(new_entry(d), sz), t) :
          sz \in Sizes, t \in Tapes }
    \cup { set_archived(set_archiving(set_archiving_queued(
               set_prepared(new_entry(d), sz), t), "dir")) :
          sz \in Sizes, t \in Tapes }

\* /nas/d1 waits for a tape (or is not prepared yet), the other directories
\* have none or one of the records above
PlaceCatalogs ==
    { a \o b \o c :
        a \in { <<new_entry("/nas/d1")>> }
                 \cup { <<set_prepared(new_entry("/nas/d1"), sz)>> : sz \in Sizes },
        b \in { << >> } \cup { <<r>> : r \in TapedRecords("/nas/d2") },
        c \in { << >> } \cup { <<r>> : r \in TapedRecords("/nas/d3") } }

\* the lists of known tapes format() is called with
AllTapes ==
    { << >>, <<"AAK001L9">>, <<"AAK002L9">>,
      <<"AAK001L9", "AAK002L9">>, <<"AAK002L9", "AAK001L9">> }

\* no call made yet; after a call: its arguments and what it returned
NoCall == [dir |-> "", all_tapes |-> << >>, result |-> ""]

PlaceInit ==
    /\ data \in PlaceCatalogs
    /\ dbFile = data
    /\ resp = NoCall
    /\ queue = << >>
    /\ queueFile = << >>
    /\ nextId = 1
    /\ pc = "sleep"
    /\ cur = 0
    /\ loc = LocInit
    /\ slots = InitSlots
    /\ mounted = FALSE
    /\ formatted = {}
    /\ onTape = [t \in Tapes |-> {}]
    /\ apiCalls = 0
    /\ rc = RcIdle
    /\ sd = "run"
    /\ files = NoFiles
    /\ main = [p \in Procs |-> "off"]

ApiPlaceDirectory(d, all_tapes) ==
    /\ HasFolder(data, d)
    /\ resp' = [dir |-> d, all_tapes |-> all_tapes,
                result |-> place_directory(data, get_folder(data, d), all_tapes)]
    /\ UNCHANGED <<catalogVars, queueVars, workerVars, libVars, apiCalls, rc, sd, procVars>>

PlaceNext ==
    \E d \in PlaceDirs, all_tapes \in AllTapes : ApiPlaceDirectory(d, all_tapes)

PlaceSpec == PlaceInit /\ [][PlaceNext]_vars

\* the tapes place_directory chooses from, and what each holds
KnownTapes ==
    ({resp.all_tapes[k] : k \in 1..Len(resp.all_tapes)}
        \cup {get(data[i], "tape") : i \in 1..Len(data)}) \ {None}

UsedOn(t) ==
    LET RECURSIVE Sum(_)
        Sum(n) == IF n = 0 THEN 0
                  ELSE Sum(n - 1)
                         + (IF get(data[n], "tape") = t THEN data[n].size ELSE 0)
    IN  Sum(Len(data))

PlacedCall ==
    /\ resp.dir # ""
    /\ get_folder(data, resp.dir).state = "prepared"

\* C21: the tape place_directory returns for a prepared record holds, with
\* the record's size added, less than tape_max_size.
C21_PlacedBelowMax ==
    (PlacedCall /\ resp.result # DoesntFit)
        => UsedOn(resp.result) + get_folder(data, resp.dir).size < tape_max_size

\* C21: a call returned a tape although the record would fill another known
\* tape exactly.
C21_Witness ==
    /\ PlacedCall
    /\ resp.result \in KnownTapes
    /\ \E t \in KnownTapes :
          UsedOn(t) + get_folder(data, resp.dir).size = tape_max_size

\* the tapes on which the record of the call fits
Candidates ==
    {t \in KnownTapes :
        UsedOn(t) + get_folder(data, resp.dir).size < tape_max_size}

\* C22: for a prepared record place_directory returns "doesn't fit" exactly
\* when no known or named tape has room, and otherwise one of the tapes with
\* room that no other such tape exceeds in used size.
C22_FullestThatFits ==
    PlacedCall =>
        /\ resp.result = DoesntFit <=> Candidates = {}
        /\ Candidates # {} =>
              /\ resp.result \in Candidates
              /\ \A t \in Candidates : UsedOn(t) <= UsedOn(resp.result)

\* C22: a call chose between two tapes with room and different used sizes,
\* and the fuller one is not the first of the known tapes.
C22_Witness ==
    /\ PlacedCall
    /\ \E t \in Candidates : UsedOn(t) < UsedOn(resp.result)
    /\ Len(resp.all_tapes) = 2
    /\ resp.all_tapes[1] # resp.result

\* positions at which the worker awaits a command that changes the drive or
\* the mount: umount, mtx unload, mtx load, mkltfs, ltfs
IssuedCommand == {"umount1", "umount2", "unload", "load", "mkltfs", "ltfs"}

\* C23: ensure_tape_mounted called while the drive holds the tape and /ltfs
\* is mounted returns without issuing a command and leaves changer, mount
\* and filesystems as they are.
C23_MountedTwice ==
    [][(/\ pc = "etm"
        /\ pc' # pc
        /\ slots[0] # ""
        /\ slots[0] = Tape
        /\ mounted)
          => /\ pc' = "a_chk1"
             /\ UNCHANGED <<slots, mounted, formatted>>
      ]_vars

\* C23: the second ensure_tape_mounted of an item has returned: its first
\* execution failed at df, behind the mount (queue.json still holds that
\* error), and it was requeued.
C23_Witness ==
    /\ pc = "a_chk1"
    /\ mounted
    /\ slots[0] = Tape
    /\ Len(queueFile) = Len(queue)
    /\ \E k \in 1..Len(queue) :
          /\ queue[k].id = cur
          /\ queue[k].error_msg = ""
          /\ queueFile[k].error_msg = "ValueError: Not enough space on tape"

\* C24: the drive never holds a cleaning cartridge; mtx load is never issued
\* for the label of one; and ensure_tape_mounted called with such a label
\* ends the task with "Can't load cleaning tape!", the changer untouched.
C24_NoCleaningTapeLoaded ==
    /\ [](slots[0] \notin CleaningTags)
    /\ [][/\ (pc' = "load" /\ pc # "load") => Tape \notin CleaningTags
          /\ (pc = "etm" /\ pc' # pc /\ Tape \in CleaningTags)
                => /\ pc' = "loop"
                   /\ Item(queue', cur).error_msg
                         = "ValueError: Can't load cleaning tape!"
                   /\ UNCHANGED <<slots, mounted, formatted>>
         ]_vars

\* C24: an archive item for the cleaning cartridge of slot 3 has failed with
\* that error, and the cartridge is still in its slot.
C24_Witness ==
    /\ slots[3] \in CleaningTags
    /\ \E k \in 1..Len(queue) :
          /\ queue[k].args[2] = slots[3]
          /\ queue[k].error_msg = "ValueError: Can't load cleaning tape!"

\* the worker is inside ensure_tape_mounted, or inside ensure_tape_loaded,
\* ensure_tape_unloaded or ensure_tape_unmounted called from it
InEnsure ==
    \/ pc \in {"etm", "etu_chk", "unload", "etl_chk", "load", "etm_loaded",
               "mkltfs", "etm_fs", "ltfs"}
    \/ /\ pc \in {"eum1", "umount1", "settle1", "eum2", "umount2", "settle2"}
       /\ loc.ctx = "etu"

\* C25: with the abort flag of the executing item set, no step of an
\* ensure-operation issues umount, mtx unload, mtx load, mkltfs or ltfs.
C25_CancelledIssuesNothing ==
    [][(Executing /\ CurItem.abort /\ InEnsure /\ pc' # pc)
          => pc' \notin IssuedCommand
      ]_vars

\* C26: mkltfs is issued only for the requested tape in the drive and only
\* when the catalog holds no archived record on it; a tape that has an
\* archived record does not become formatted by a step of the daemon.
C26_FormatOnlyUnarchived ==
    /\ [][(pc' = "mkltfs" /\ pc # "mkltfs")
            => /\ slots[0] = CurItem.args[2]
               /\ \A i \in 1..Len(data) :
                     data[i].state = "archived" => get(data[i], "tape") # slots[0]
         ]_vars
    /\ [][\A t \in formatted' \ formatted :
            \A i \in 1..Len(data) :
               data[i].state = "archived" => get(data[i], "tape") # t
         ]_vars

\* mkltfs runs on AAK002L9 while the catalog holds an archived record on
\* AAK001L9
C26_Witness ==
    /\ pc = "mkltfs"
    /\ slots[0] = "AAK002L9"
    /\ \E i \in 1..Len(data) :
          data[i].state = "archived" /\ get(data[i], "tape") = "AAK001L9"
    /\ \A i \in 1..Len(data) :
          data[i].state = "archived" => get(data[i], "tape") # "AAK002L9"

\* C27: a step that issues mtx unload finds a tape in the drive and /ltfs not
\* mounted, and its target is the lowest-numbered empty slot, a storage slot.
C27_UnloadAfterUnmount ==
    [][(pc' = "unload" /\ pc # "unload")
         => /\ slots[0] # ""
            /\ ~mounted
            /\ \E n \in 1..NSlots :
                  /\ slots[n] = ""
                  /\ \A m \in 0..(n - 1) : slots[m] # ""
      ]_vars

-----------------------------------------------------------------------------
(* find_tape of the two packages, called on every changer content *)

\* every placement of the two tapes and the cleaning cartridge, each at most
\* once, in the drive and the storage slots
FindSlots ==
    { sl \in [0..NSlots -> {""} \cup Tapes \cup CleaningTags] :
         \A n, m \in 0..NSlots : (sl[n] = sl[m] /\ sl[n] # "") => n = m }

NoFind == [package |-> "", volume_tag |-> "", result |-> -1]

FindInit ==
    /\ data = << >>
    /\ dbFile = data
    /\ resp = NoFind
    /\ queue = << >>
    /\ queueFile = << >>
    /\ nextId = 1
    /\ pc = "sleep"
    /\ cur = 0
    /\ loc = LocInit
    /\ slots \in FindSlots
    /\ mounted = FALSE
    /\ formatted = {}
    /\ onTape = [t \in Tapes |-> {}]
    /\ apiCalls = 0
    /\ rc = RcIdle
    /\ sd = "run"
    /\ files = NoFiles
    /\ main = [p \in Procs |-> "off"]

\* Library().find_tape(volume_tag) of pytarchive
ApiFindTape(volume_tag) ==
    /\ resp' = [package |-> "pytarchive", volume_tag |-> volume_tag,
                result |-> find_tape(slots, volume_tag)]
    /\ UNCHANGED <<catalogVars, queueVars, workerVars, libVars, apiCalls, rc, sd, procVars>>

\* Library().find_tape(volume_tag) of pyarchive
ApiFindTapePyarchive(volume_tag) ==
    /\ resp' = [package |-> "pyarchive", volume_tag |-> volume_tag,
                result |-> pyarchive_find_tape(slots, volume_tag)]
    /\ UNCHANGED <<catalogVars, queueVars, workerVars, libVars, apiCalls, rc, sd, procVars>>

FindNext ==
    \/ \E t \in LibLabels : ApiFindTape(t)
    \/ \E t \in LibLabels : ApiFindTapePyarchive(t)

FindSpec == FindInit /\ [][FindNext]_vars

\* C28: find_tape answers a slot whose volume tag equals the given tag, and
\* nothing (-1) when no slot holds exactly that tag; in particular a tag
\* without its L9 suffix finds nothing.
C28_FindTapeExact ==
    resp.package # ""
      => IF \E n \in 0..NSlots : slots[n] = resp.volume_tag
           THEN resp.result \in 0..NSlots /\ slots[resp.result] = resp.volume_tag
           ELSE resp.result = -1

\* C29: a start is refused with exit code 1 only while another instance is
\* running, and always when a running instance holds the lock on the PID
\* file; no two instances serve at the same time.  (A PID file left by a
\* killed instance, with no instance running, must not refuse a start.)
C29_RefusedOnlyByRunningInstance ==
    /\ [](\A p, q \in Procs :
             (main[p] = "serving" /\ main[q] = "serving") => p = q)
    /\ [][\A p \in Procs :
            (main[p] \in Stopped /\ main'[p] # main[p])
              => /\ main'[p] = "exit1"
                    => \E q \in Procs \ {p} : main[q] \in Running
                 /\ (\E q \in Procs \ {p} : main[q] \in Running /\ files.lock = q)
                    => main'[p] = "exit1"
         ]_vars

\* C30: a daemon that was signalled and has closed its listener ends with
\* exit code 0, no exception leaving main(), and with neither the PID file
\* nor the socket file left behind.
C30_SignalledExitsCleanly ==
    [][\A p \in Procs :
          (main[p] \in {"closing", "unlink", "finally"}
             /\ main'[p] \in Stopped \ {"killed"})
            => /\ main'[p] = "exit0"
               /\ ~files'.pid
               /\ files'.sock = 0
      ]_vars

-----------------------------------------------------------------------------
(* pytarchiveServer.data_received around handle_command, for the explore   *)
(* command.  mtx_ok: "mtx status" printed a status; otherwise _get_status  *)
(* raises RuntimeError, which leaves find_tape and the handler.            *)

\* logging.Logger.log(level, msg, *args): a call with fewer than two
\* positional arguments raises TypeError
logger_log(args) == IF Len(args) < 2 THEN "TypeError" ELSE ""

NoRequest == [command |-> "", body |-> "", escaped |-> ""]

ServerInit ==
    /\ data = << >>
    /\ dbFile = data
    /\ resp = NoRequest
    /\ queue = << >>
    /\ queueFile = << >>
    /\ nextId = 1
    /\ pc = "sleep"
    /\ cur = 0
    /\ loc = LocInit
    /\ slots \in FindSlots
    /\ mounted = FALSE
    /\ formatted = {}
    /\ onTape = [t \in Tapes |-> {}]
    /\ apiCalls = 0
    /\ rc = RcIdle
    /\ sd = "run"
    /\ files = NoFiles
    /\ main = [p \in Procs |-> "off"]

\* data_received(b"explore\0<tapelabel>"): try: handle_command(...)
\* except Exception as e: logger.log("Error on data receive: " + str(e))
data_received_explore(tapelabel, priority, mtx_ok) ==
    /\ nextId <= MaxItems
    /\ IF ~mtx_ok
         THEN \* handle_explore raised RuntimeError before it wrote anything
              /\ resp' = [command |-> "explore", body |-> "",
                          escaped |-> logger_log(<<"Error on data receive: RuntimeError">>)]
              /\ UNCHANGED queueVars
         ELSE /\ resp' = [command |-> "explore", body |-> explore_response(tapelabel),
                          escaped |-> ""]
              /\ IF explore_response(tapelabel) # "Exploring queued"
                   THEN UNCHANGED queueVars
                   ELSE /\ queue' = append(queue,
                              WorkItem(nextId, priority, "explore",
                                       <<tapelabel, 600, None>>,
                                       <<"Exploring tape", tapelabel>>))
                        /\ queueFile' = write_json(queue')
                        /\ nextId' = nextId + 1
    /\ UNCHANGED <<catalogVars, workerVars, libVars, apiCalls, rc, sd, procVars>>

ServerNext ==
    \E t \in LibLabels, mtx_ok \in BOOLEAN : data_received_explore(t, 20, mtx_ok)

ServerSpec == ServerInit /\ [][ServerNext]_vars

\* C31: every request handed to data_received gets a response body, and no
\* exception leaves data_received.
C31_EveryRequestAnswered ==
    resp.command # "" => (resp.body # "" /\ resp.escaped = "")

-----------------------------------------------------------------------------
(* JsonDatabase._write_json step by step, and the daemon killed at any     *)
(* point of it.  Here dbFile is the text of database.json as the pieces    *)
(* json.dump writes: the opening bracket, the records, the closing one.    *)

LBracket == [json |-> "["]
RBracket == [json |-> "]"]

\* json.dump(self.data, f, indent=4)
json_dump(db) == <<LBracket>> \o db \o <<RBracket>>

NotWriting == [writing |-> FALSE, before |-> << >>]

CrashInit ==
    /\ data \in InitCatalogs
    /\ dbFile = json_dump(data)
    /\ resp = [NotWriting EXCEPT !.before = data]
    /\ queue = << >>
    /\ queueFile = << >>
    /\ nextId = 1
    /\ pc = "sleep"
    /\ cur = 0
    /\ loc = LocInit
    /\ slots = InitSlots
    /\ mounted = FALSE
    /\ formatted = {}
    /\ onTape = [t \in Tapes |-> {}]
    /\ apiCalls = 0
    /\ rc = RcIdle
    /\ sd = "run"
    /\ files = [NoFiles EXCEPT !.pid = TRUE, !.sock = 1]
    /\ main = [p \in Procs |-> IF p = 1 THEN "serving" ELSE "off"]

\* a mutation of the catalog followed by the first line of _write_json:
\* open(self.json_file, "w") truncates the file
WriteOpen(new) ==
    /\ main[1] = "serving"
    /\ ~resp.writing
    /\ data' = new
    /\ dbFile' = << >>
    /\ resp' = [writing |-> TRUE, before |-> data]
    /\ UNCHANGED <<queueVars, workerVars, libVars, apiCalls, rc, sd, procVars>>

CrashCreateEntry(d) ==
    /\ create_entry_ok(data, d)
    /\ WriteOpen(Append(data, new_entry(d)))

CrashSetPrepared(d, size) ==
    /\ HasFolder(data, d)
    /\ set_prepared_ok(get_folder(data, d))
    /\ WriteOpen(Store(data, d, set_prepared(get_folder(data, d), size)))

\* json.dump writes the next piece
WriteDump ==
    /\ main[1] = "serving"
    /\ resp.writing
    /\ Len(dbFile) < Len(json_dump(data))
    /\ dbFile' = Append(dbFile, json_dump(data)[Len(dbFile) + 1])
    /\ UNCHANGED <<data, resp, queueVars, workerVars, libVars, apiCalls, rc, sd,
                   procVars>>

\* the with statement closes the file; the setter returns
WriteClose ==
    /\ main[1] = "serving"
    /\ resp.writing
    /\ Len(dbFile) = Len(json_dump(data))
    /\ resp' = [resp EXCEPT !.writing = FALSE]
    /\ UNCHANGED <<catalogVars, queueVars, workerVars, libVars, apiCalls, rc, sd,
                   procVars>>

CrashNext ==
    \/ \E d \in Dirs : CrashCreateEntry(d)
    \/ \E d \in Dirs, size \in Sizes : CrashSetPrepared(d, size)
    \/ WriteDump
    \/ WriteClose
    \/ Kill(1)

CrashSpec == CrashInit /\ [][CrashNext]_vars

\* C32: whenever the process is killed, database.json holds the complete
\* list of records of before the mutation in progress or the complete new
\* list.
C32_AtomicCatalogWrite ==
    main[1] = "killed"
      => (dbFile = json_dump(resp.before) \/ dbFile = json_dump(data))

\* C33: between the steps of handlers and tasks, database.json holds the
\* catalog that is in memory.
C33_CatalogFileMatchesMemory == dbFile = data

\* C34: an archive task without abort request that ends after its copy is
\* on the tape (rsync and rm done for a compressed record; copy, comparison
\* and a parsable du done for the other) leaves the record archived on the
\* requested tape with a measured size, and its item is removed.
C34_ArchiveSucceeds ==
    [][(/\ cur # 0 /\ cur \in Ids(queue)
        /\ CurItem.coroutine = "archive"
        /\ ~CurItem.abort
        /\ mounted /\ slots[0] = CurItem.args[2]
        /\ \/ pc = "rm" /\ (CurItem.args[3] \o ".tar.gz") \in onTape[slots[0]]
           \/ pc = "du_tape"
        /\ cur' = 0
        /\ \A k \in 1..Len(queue') : queue'[k].error_msg # "IndexError")
         => /\ cur \notin Ids(queue')
            /\ \E i \in 1..Len(data') :
                  /\ data'[i].original_directory = CurItem.args[1]
                  /\ data'[i].state = "archived"
                  /\ get(data'[i], "tape") = CurItem.args[2]
                  /\ get(data'[i], "size") \in Sizes
      ]_vars

-----------------------------------------------------------------------------
(* The archive task with the two listings of check_folders_equal, run for  *)
(* a record a client of the catalog API has moved to state archiving after *)
(* the archive command was accepted.  A line "<path> <size>" of a listing  *)
(* is a number; resp holds the listings of the last comparison.            *)

MaxFiles == 2        \* files of the archived folder

\* what find prints: the lines of some of the files, in any order
Listings ==
    {<< >>} \cup {<<a>> : a \in 1..MaxFiles}
            \cup {<<a, b>> : a, b \in 1..MaxFiles}

RECURSIVE InsertLine(_, _)
InsertLine(s, x) ==
    IF s = << >> THEN <<x>>
    ELSE IF x < Head(s) THEN <<x>> \o s
    ELSE <<Head(s)>> \o InsertLine(Tail(s), x)

\* sorted(text.splitlines())
RECURSIVE sorted_lines(_)
sorted_lines(s) ==
    IF s = << >> THEN << >>
    ELSE InsertLine(sorted_lines(SubSeq(s, 1, Len(s) - 1)), s[Len(s)])

\* variant that takes every pair of listings for equal
check_folders_equal_always(filesizes, filesizes_on_tape) == TRUE

\* check_folders_equal: filesizes == filesizes_on_tape after sorting
check_folders_equal(filesizes, filesizes_on_tape) ==
    sorted_lines(filesizes) = sorted_lines(filesizes_on_tape)

NoListing == [filesizes |-> << >>, filesizes_on_tape |-> << >>, compared |-> FALSE]

\* the record of /nas/d1 in state archiving for tape t and name "x"
ArchivingRecord(t) ==
    set_archiving(set_archiving_queued(
        set_prepared_compressed(new_entry("/nas/d1"), 1, FALSE), t), "x")

CompareInit ==
    /\ \E t \in Tapes :
          /\ data = << ArchivingRecord(t) >>
          /\ queue = << WorkItem(1, 100, "archive", <<"/nas/d1", t, "x">>,
                                 <<"Archiving folder", "/nas/d1", t>>) >>
    /\ dbFile = data
    /\ resp = NoListing
    /\ queueFile = write_json(queue)
    /\ nextId = 2
    /\ pc = "loop"
    /\ cur = 0
    /\ loc = LocInit
    /\ slots \in LibSlots
    /\ mounted \in (IF slots[0] = "" THEN {FALSE} ELSE BOOLEAN)
    /\ formatted = {t \in Tapes : mounted /\ slots[0] = t}
    /\ onTape = [t \in Tapes |-> {}]
    /\ apiCalls = 0
    /\ rc = RcIdle
    /\ sd = "run"
    /\ files = NoFiles
    /\ main = [p \in Procs |-> "off"]

\* check_folders_equal: find in the source directory printed filesizes
ArchiveCfe1Listing(filesizes) ==
    /\ pc = "cfe1"
    /\ Goto("cfe2")
    /\ resp' = [filesizes |-> filesizes, filesizes_on_tape |-> << >>,
                compared |-> FALSE]
    /\ UNCHANGED <<catalogVars, nextId, libVars, apiCalls, rc, sd, procVars>>

\* find in the directory on the tape printed filesizes_on_tape; archive
\* raises unless check_folders_equal returned True
ArchiveCfe2Listing(filesizes_on_tape) ==
    /\ pc = "cfe2"
    /\ resp' = [resp EXCEPT !.filesizes_on_tape = filesizes_on_tape,
                            !.compared = TRUE]
    /\ IF check_folders_equal(resp.filesizes, filesizes_on_tape)
         THEN Goto("du_tape")
         ELSE TaskRaise("ValueError: After-copy consistency check failed")
    /\ UNCHANGED <<catalogVars, nextId, libVars, apiCalls, rc, sd, procVars>>

CompareNext ==
    \/ WorkerPick
    \/ WorkerWake
    \/ ArchiveStart
    \/ EtmEnter
    \/ Eum1
    \/ \E ok \in BOOLEAN : Umount1(ok)
    \/ Settle1
    \/ Eum2
    \/ \E ok \in BOOLEAN : Umount2(ok)
    \/ Settle2
    \/ EtuChk
    \/ \E ok \in BOOLEAN : Unload(ok)
    \/ EtlChk
    \/ \E ok \in BOOLEAN : Load(ok)
    \/ EtmLoaded
    \/ \E ok \in BOOLEAN : Mkltfs(ok)
    \/ EtmFs
    \/ \E ok \in BOOLEAN : Ltfs(ok)
    \/ ArchiveChk1
    \/ \E row \in BOOLEAN, enough \in BOOLEAN : ArchiveDf(row, enough)
    \/ ArchiveFind
    \/ ArchiveCopy
    \/ \E l \in Listings : ArchiveCfe1Listing(l)
    \/ \E l \in Listings : ArchiveCfe2Listing(l)
    \/ \E out \in DuOutcomes : ArchiveDuTape(out)
    \/ ArchiveFin
    \/ ArchiveDone
    \/ handle_abort(1)
    \/ handle_requeue(1)

CompareSpec == CompareInit /\ [][CompareNext]_vars

\* C35: a non-compressed record becomes archived only after a comparison
\* that found the sorted listings of source and target equal; a comparison
\* that finds them different ends the task with the item quarantined and
\* the record not archived.
C35_ArchivedOnlyAfterEqualListings ==
    /\ [][\A i \in 1..Len(data) :
            (data[i].state # "archived" /\ data'[i].state = "archived"
               /\ ~data[i].compressed)
              => /\ resp.compared
                 /\ sorted_lines(resp.filesizes)
                       = sorted_lines(resp.filesizes_on_tape)
         ]_vars
    /\ [][(pc = "cfe2" /\ pc' # "cfe2"
             /\ sorted_lines(resp'.filesizes)
                   # sorted_lines(resp'.filesizes_on_tape))
            => /\ cur' = 0
               /\ cur \in Ids(queue')
               /\ Item(queue', cur).error_msg # ""
               /\ \A i \in 1..Len(data') : data'[i].state # "archived"
         ]_vars

\* the record is archived after a comparison of two equal listings that
\* find printed in different orders
C35_Witness ==
    /\ data[1].state = "archived"
    /\ resp.compared
    /\ resp.filesizes = <<1, 2>>
    /\ resp.filesizes_on_tape = <<2, 1>>

\* C36: when ensure_tape_mounted returns to the archive task without error
\* and without the abort flag set, the drive holds the requested tape and
\* /ltfs is mounted; mtx load is issued only while the drive is empty.
C36_ReturnsMounted ==
    /\ [][(pc \in {"etm", "etm_loaded", "etm_fs", "ltfs"} /\ pc' = "a_chk1"
             /\ ~CurItem.abort)
            => (slots'[0] = CurItem.args[2] /\ mounted')
         ]_vars
    /\ [][(pc' = "load" /\ pc # "load") => slots[0] = ""]_vars

\* the call returned with AAK002L9 mounted after a run that formatted a tape
\* while the other one had been mounted before
C36_Witness ==
    /\ pc = "a_chk1"
    /\ ~CurItem.abort
    /\ CurItem.args[2] = "AAK002L9"
    /\ slots[0] = "AAK002L9"
    /\ mounted
    /\ Len(data) = 1
    /\ formatted = {"AAK001L9", "AAK002L9"}

\* C37: the item the worker is executing is in the queue at every moment,
\* whatever commands arrive while its task is suspended, and the worker is
\* never left dead by a removal that does not find the item.
C37_ExecutingItemStaysQueued ==
    /\ pc # "dead"
    /\ cur # 0 => \E k \in 1..Len(queue) : queue[k].id = cur /\ queue[k].running

\* an abort command has been served for the archive item that is executing
C37_Witness ==
    /\ cur # 0
    /\ pc \in Suspended
    /\ \E k \in 1..Len(queue) :
          /\ queue[k].id = cur
          /\ queue[k].coroutine = "archive"
          /\ queue[k].abort
          /\ queue[k].running
          /\ queue[k].error_msg = ""

\* the queue holds no item get_top would return
OnlyFailed == \A k \in 1..Len(queue) : queue[k].error_msg # ""

\* C38: once commands stop arriving the queue eventually holds failed items
\* only and stays so: every healthy item has been executed and was removed or
\* quarantined with an error message. The item the worker executes changes
\* only when its task has ended, with the item removed or quarantined, however
\* urgent the items enqueued meanwhile.
C38_QueueDrains ==
    /\ [][cur # 0 =>
            /\ cur' \in {cur, 0}
            /\ cur' = 0 =>
                  \A k \in 1..Len(queue') :
                      queue'[k].id = cur => queue'[k].error_msg # ""
         ]_vars
    /\ (<>[][WorkerNext]_vars) => <>[]OnlyFailed

\* the worker sleeps on a queue of two quarantined items, the more urgent of
\* which was enqueued after the other
C38_Witness ==
    /\ pc = "sleep"
    /\ cur = 0
    /\ Len(queue) = 2
    /\ OnlyFailed
    /\ \E j, k \in 1..2 :
          /\ queue[j].id < queue[k].id
          /\ queue[k].priority < queue[j].priority

\* C39: every catalog record in state preparing has a prepare item for its
\* folder in the queue, so that a record a new prepare command would be
\* refused over as a duplicate is always one whose preparation is still
\* queued, executing or quarantined.
C39_PreparingHasItem ==
    \A i \in 1..Len(data) :
        data[i].state = "preparing" =>
            \E k \in 1..Len(queue) :
                /\ queue[k].coroutine = "prepare"
                /\ queue[k].args[1] = data[i].original_directory

-----------------------------------------------------------------------------
(* Archive commands and the space of a tape *)

\* the size of all records that carry the label of a tape
size_on_tape(db, tape) == SumSize(get_directories_on_tape(db, tape))

\* catalogs of up to two records, prepared or archived on AAK001L9, whose
\* sizes respect tape_max_size
TapeCatalogs ==
    { c \in ValidationCatalogs :
        \A t \in ArchiveTapes : size_on_tape(c, t) <= tape_max_size }

TapeInit ==
    /\ data \in TapeCatalogs
    /\ dbFile = data
    /\ resp = ""
    /\ queue = << >>
    /\ queueFile = << >>
    /\ nextId = 1
    /\ pc = "sleep"
    /\ cur = 0
    /\ loc = LocInit
    /\ slots = InitSlots
    /\ mounted = FALSE
    /\ formatted = {}
    /\ onTape = [t \in Tapes |-> {}]
    /\ apiCalls = 0
    /\ rc = RcIdle
    /\ sd = "run"
    /\ files = NoFiles
    /\ main = [p \in Procs |-> "off"]

\* the commands served while the worker sleeps
TapeNext ==
    \/ \E id \in 1..MaxItems : handle_abort(id)
    \/ \E d \in Dirs, c \in BOOLEAN, ok \in BOOLEAN :
            handle_prepare(d, c, 0, ok)
    \/ \E d \in Dirs, t \in ArchiveTapes, n \in {"", "x"}, ok \in BOOLEAN :
            handle_archive(d, t, n, 100, ok)

TapeSpec == TapeInit /\ [][TapeNext]_vars

\* C40: for every tape, the sizes of the catalog records that carry the
\* tape's label add up to at most tape_max_size, whatever archive, prepare
\* and abort commands have been served.
C40_TapeNeverOverfull ==
    \A t \in ArchiveTapes : size_on_tape(data, t) <= tape_max_size

\* two records carry the label of the same tape and fill it exactly, one of
\* them through an archive command served after the other was on the tape
C40_Witness ==
    /\ Len(data) = 2
    /\ get(data[1], "tape") = "AAK001L9"
    /\ get(data[2], "tape") = "AAK001L9"
    /\ data[1].size + data[2].size = tape_max_size
    /\ \E k \in 1..Len(queue) : queue[k].coroutine = "archive"

====
